---- MODULE Spec2Model ----
(***************************************************************************)
(* Character-Simulator (book_chat): the turn-taking core of core.py and    *)
(* the language-model client of anthropic_client.py.                       *)
(*                                                                         *)
(* Texts (Python str) are sequences of units.  A unit is a TLA+ string: a  *)
(* single character, a lexeme of several characters ("true",               *)
(* "next_speaker") or FILLER, which stands for a run of FillerLen          *)
(* characters of prose.  len() of a text is the sum of its units' widths.  *)
(***************************************************************************)
EXTENDS Integers, Sequences, FiniteSets, TLC

VARIABLES
    unit,               \* the last direct call of one function: its inputs and its result
    client,             \* which client object Character/Narrator/Conversation hold
    gui,                \* Conversation.gui is set (a ChatWindow is attached)
    platform,           \* sys.platform
    stdin,              \* the lines typed on the terminal that are not read yet
    history,            \* Conversation.history
    pc,                 \* position of the conversation thread inside Conversation.start
    turn,               \* the loop variable of Conversation.start
    quit_requested,     \* ChatWindow.quit_requested
    selected_character, \* ChatWindow.selected_character
    last_speaker_name,  \* Conversation.last_speaker_name
    interested,         \* interested_characters of the current round
    speaker,            \* speaker of the current round
    is_player_turn,     \* is_player_turn of the current round
    opening_scene,      \* Conversation.opening_scene
    player_input,       \* ChatWindow.player_input
    waiting_for_player, \* ChatWindow.waiting_for_player
    exit,               \* how Conversation.start left its loop ("none" while it runs)
    round               \* record of the current round: calls made, values obtained

vars == <<unit, client, gui, platform, stdin, history, pc, turn, quit_requested, selected_character,
          last_speaker_name, interested, speaker, is_player_turn, opening_scene,
          player_input, waiting_for_player, exit, round>>

convVars == <<client, gui, platform, stdin, history, pc, turn, quit_requested, selected_character,
              last_speaker_name, interested, speaker, is_player_turn, opening_scene,
              player_input, waiting_for_player, exit, round>>

-----------------------------------------------------------------------------
(* Bounds of the model *)

MaxCandidates == 3      \* longest candidate list handed to choose_next_speaker
MaxHist == 3            \* longest history handed to trim_history_to_token_limit
MaxTurns == 2           \* max_turns of Conversation.start
MaxTyped == 1           \* most lines waiting unread on the terminal
FillerLen == 40000      \* characters one FILLER unit stands for
MaxLines == 3           \* most lines the conversation loop presents with a TTS client at hand
MaxRequests == 4        \* most requests to speak made of one ElevenLabsTTS object
CacheSize == 2          \* cache_size of the ElevenLabsTTS object
MaxVoiceCalls == 2      \* most calls of find_or_create_voice made of one ElevenLabsTTS object

-----------------------------------------------------------------------------
(* Python values *)

None == [none |-> TRUE]

QUOTE == "\""
NL == "\n"
FILLER == "<prose>"

\* len(unit)
Width(u) == IF u = FILLER THEN FillerLen ELSE Len(u)

RECURSIVE StrLen(_)
\* len(s)
StrLen(s) == IF s = <<>> THEN 0 ELSE Width(Head(s)) + StrLen(Tail(s))

UpperCase == <<"A", "B", "C", "D", "E", "F", "G", "H", "I", "J", "K", "L", "M",
               "N", "O", "P", "Q", "R", "S", "T", "U", "V", "W", "X", "Y", "Z">>
LowerCase == <<"a", "b", "c", "d", "e", "f", "g", "h", "i", "j", "k", "l", "m",
               "n", "o", "p", "q", "r", "s", "t", "u", "v", "w", "x", "y", "z">>

LowerUnit(u) ==
    IF \E i \in 1..Len(UpperCase) : UpperCase[i] = u
    THEN LowerCase[CHOOSE i \in 1..Len(UpperCase) : UpperCase[i] = u]
    ELSE u

\* s.lower()
Lower(s) == [i \in 1..Len(s) |-> LowerUnit(s[i])]

IsSpace(u) == u \in {" ", NL, "\t", "\r"}

RECURSIVE LStrip(_)
LStrip(s) == IF s # <<>> /\ IsSpace(Head(s)) THEN LStrip(Tail(s)) ELSE s

RECURSIVE RStrip(_)
RStrip(s) ==
    IF s # <<>> /\ IsSpace(s[Len(s)]) THEN RStrip(SubSeq(s, 1, Len(s) - 1)) ELSE s

\* s.strip()
Strip(s) == RStrip(LStrip(s))

\* needle in hay
Contains(hay, needle) ==
    \E i \in 0..(Len(hay) - Len(needle)) : SubSeq(hay, i + 1, i + Len(needle)) = needle

-----------------------------------------------------------------------------
(* JSON values, as json.loads builds them *)

JBool(b) == [t |-> "bool", b |-> b]
JNull == [t |-> "null"]
JNum(n) == [t |-> "num", n |-> n]
JStr(s) == [t |-> "str", s |-> s]
JList(items) == [t |-> "list", items |-> items]
JDict(pairs) == [t |-> "dict", pairs |-> pairs]   \* pairs: <<key, value>>, in text order

\* bool(v)
Truthy(v) ==
    CASE v.t = "bool" -> v.b
      [] v.t = "null" -> FALSE
      [] v.t = "num" -> v.n # 0
      [] v.t = "str" -> v.s # <<>>
      [] v.t = "list" -> v.items # <<>>
      [] v.t = "dict" -> v.pairs # <<>>

\* d.get(key): None for a missing key; a repeated key keeps its last value
DictGet(d, key) ==
    LET hits == {i \in 1..Len(d.pairs) : d.pairs[i][1] = key}
    IN IF hits = {} THEN JNull
       ELSE d.pairs[CHOOSE i \in hits : \A j \in hits : j <= i][2]

\* x = v; F(x): v is evaluated once, as an assignment or a call by value evaluates it
Let(v, F(_)) == CHOOSE r \in {F(x) : x \in {v}} : TRUE

Digits == {"0", "1", "2", "3", "4", "5", "6", "7", "8", "9"}
DigitValue(u) == CHOOSE n \in 0..9 : ToString(n) = u

Fail == [ok |-> FALSE]

RECURSIVE SkipWs(_, _)
SkipWs(s, i) == IF i <= Len(s) /\ IsSpace(s[i]) THEN SkipWs(s, i + 1) ELSE i

\* the string literal that opens at position i (s[i] is the quote)
ParseString(s, i) ==
    Let({j \in (i + 1)..Len(s) : s[j] = QUOTE}, LAMBDA closes :
        IF closes = {} THEN Fail
        ELSE Let(CHOOSE k \in closes : \A m \in closes : k <= m, LAMBDA j :
                 IF \E k \in (i + 1)..(j - 1) : s[k] \in {NL, "\t", "\r"}
                 THEN Fail        \* a control character inside a string literal
                 ELSE [ok |-> TRUE, val |-> JStr(SubSeq(s, i + 1, j - 1)), next |-> j + 1]))

RECURSIVE ParseValue(_, _)
RECURSIVE ParseItems(_, _, _)
RECURSIVE ParsePairs(_, _, _)

\* the elements of an array after "[" or ","; i is at the next element
ParseItems(s, i, acc) ==
    Let(ParseValue(s, SkipWs(s, i)), LAMBDA v :
        IF ~v.ok THEN Fail
        ELSE Let(SkipWs(s, v.next), LAMBDA k :
                 CASE k <= Len(s) /\ s[k] = "," -> ParseItems(s, k + 1, Append(acc, v.val))
                   [] k <= Len(s) /\ s[k] = "]" ->
                          [ok |-> TRUE, val |-> JList(Append(acc, v.val)), next |-> k + 1]
                   [] OTHER -> Fail))

\* the members of an object after "{" or ","; i is at the next key
ParsePairs(s, i, acc) ==
    Let(SkipWs(s, i), LAMBDA k :
        IF ~(k <= Len(s) /\ s[k] = QUOTE) THEN Fail
        ELSE Let(ParseString(s, k), LAMBDA key :
        IF ~key.ok THEN Fail
        ELSE Let(SkipWs(s, key.next), LAMBDA c :
        IF ~(c <= Len(s) /\ s[c] = ":") THEN Fail
        ELSE Let(ParseValue(s, SkipWs(s, c + 1)), LAMBDA v :
        IF ~v.ok THEN Fail
        ELSE Let(SkipWs(s, v.next), LAMBDA e :
        Let(Append(acc, <<key.val.s, v.val>>), LAMBDA got :
            CASE e <= Len(s) /\ s[e] = "," -> ParsePairs(s, e + 1, got)
              [] e <= Len(s) /\ s[e] = "}" -> [ok |-> TRUE, val |-> JDict(got), next |-> e + 1]
              [] OTHER -> Fail))))))

\* one JSON value starting at position i
ParseValue(s, i0) ==
    Let(i0, LAMBDA i :
        IF i > Len(s) THEN Fail
        ELSE CASE s[i] = "true" -> [ok |-> TRUE, val |-> JBool(TRUE), next |-> i + 1]
               [] s[i] = "false" -> [ok |-> TRUE, val |-> JBool(FALSE), next |-> i + 1]
               [] s[i] = "null" -> [ok |-> TRUE, val |-> JNull, next |-> i + 1]
               [] s[i] \in Digits ->
                      [ok |-> TRUE, val |-> JNum(DigitValue(s[i])), next |-> i + 1]
               [] s[i] = QUOTE -> ParseString(s, i)
               [] s[i] = "[" ->
                      Let(SkipWs(s, i + 1), LAMBDA k :
                          IF k <= Len(s) /\ s[k] = "]"
                          THEN [ok |-> TRUE, val |-> JList(<<>>), next |-> k + 1]
                          ELSE ParseItems(s, i + 1, <<>>))
               [] s[i] = "{" ->
                      Let(SkipWs(s, i + 1), LAMBDA k :
                          IF k <= Len(s) /\ s[k] = "}"
                          THEN [ok |-> TRUE, val |-> JDict(<<>>), next |-> k + 1]
                          ELSE ParsePairs(s, i + 1, <<>>))
               [] OTHER -> Fail)

\* json.loads(s): ok is FALSE where it raises JSONDecodeError
JsonLoads(s0) ==
    Let(s0, LAMBDA s :
    Let(ParseValue(s, SkipWs(s, 1)), LAMBDA v :
        IF v.ok /\ SkipWs(s, v.next) > Len(s) THEN [ok |-> TRUE, val |-> v.val] ELSE Fail))

-----------------------------------------------------------------------------
(* parse_json_response *)

LineBreaks == {NL, "\r"}

\* the last line in place of the first
last_line(s) ==
    IF s = <<>> THEN <<>>
    ELSE IF \E i \in 1..Len(s) : s[i] \in LineBreaks
         THEN Strip(SubSeq(s, (CHOOSE i \in 1..Len(s) :
                                  /\ s[i] \in LineBreaks
                                  /\ \A j \in (i + 1)..Len(s) : s[j] \notin LineBreaks) + 1,
                           Len(s)))
         ELSE Strip(s)

\* s.splitlines()[0].strip() if s else ""
first_line(s) ==
    IF s = <<>> THEN <<>>
    ELSE IF \E i \in 1..Len(s) : s[i] \in LineBreaks
         THEN Strip(SubSeq(s, 1, (CHOOSE i \in 1..Len(s) :
                                     /\ s[i] \in LineBreaks
                                     /\ \A j \in 1..(i - 1) : s[j] \notin LineBreaks) - 1))
         ELSE Strip(s)

\* parse_json_response(response, fallback_key); fallback_key <<>> is None.
\* The value returned is whatever json.loads returned, a dict or not.
parse_json_response(response, fallback_key) ==
    Let(Strip(response), LAMBDA raw_preview :
    Let(JsonLoads(raw_preview), LAMBDA full :
        IF full.ok THEN full.val
        ELSE Let(first_line(raw_preview), LAMBDA line :
             Let(JsonLoads(line), LAMBDA first :
                 IF line # <<>> /\ line # raw_preview /\ first.ok THEN first.val
                 ELSE IF fallback_key # <<>>
                      THEN JDict(<< <<fallback_key, JStr(raw_preview)>> >>)
                      ELSE JDict(<< <<(<<"text">>), JStr(raw_preview)>> >>)))))

-----------------------------------------------------------------------------
(* The language-model client.  A provider outcome is what one request to   *)
(* the provider does: it raises, or it returns the completion text.        *)

Raises == [raised |-> TRUE]
Returns(text) == [raised |-> FALSE, text |-> text]

\* the keyword parameters of ClaudeClient.send_message
SendMessageParams ==
    {"system_prompt", "messages", "max_tokens", "stream", "prefix", "stream_callback",
     "assistant_prefill"}

\* the keywords of a call site that passes a schema, and of one that passes a prefill
SchemaCall == {"system_prompt", "messages", "max_tokens", "stream", "output_format"}
PrefillCall == {"system_prompt", "messages", "max_tokens", "stream", "assistant_prefill"}

\* messages.append({...}) in place of messages = messages + [{...}]
with_prefill_append(messages, assistant_prefill) ==
    IF assistant_prefill # <<>>
    THEN [sent |-> messages \o <<[role |-> "assistant", content |-> assistant_prefill]>>,
          list |-> messages \o <<[role |-> "assistant", content |-> assistant_prefill]>>]
    ELSE [sent |-> messages, list |-> messages]

\* if assistant_prefill: messages = messages + [{...}]: sent is the list handed to the
\* provider, list the caller's list object after the statement
with_prefill(messages, assistant_prefill) ==
    IF assistant_prefill # <<>>
    THEN [sent |-> messages \o <<[role |-> "assistant", content |-> assistant_prefill]>>,
          list |-> messages]
    ELSE [sent |-> messages, list |-> messages]

\* ClaudeClient.send_message(**kwargs) with stream=False: exc is the exception that leaves
\* the call ("none" when it returns), requests the provider requests it issued, sent
\* the message list handed to the provider, messages the caller's list after the call.
ClaudeClient_send_message(kwargs, messages, assistant_prefill, outcome) ==
    IF ~(kwargs \subseteq SendMessageParams)
    THEN [exc |-> "TypeError", text |-> <<>>, requests |-> 0, sent |-> <<>>,
          messages |-> messages]
    ELSE Let(with_prefill(messages, assistant_prefill), LAMBDA m :
            IF outcome.raised
            THEN [exc |-> "APIError", text |-> <<>>, requests |-> 1, sent |-> m.sent,
                  messages |-> m.list]
            ELSE [exc |-> "none", text |-> assistant_prefill \o outcome.text,
                  requests |-> 1, sent |-> m.sent, messages |-> m.list])

\* A client with the interface of spec section 4.2: send(system_prompt, history,
\* max_tokens, {stream, streaming_sink, prefill, response_schema}) -> text.
SchemaClient_send_message(kwargs, messages, assistant_prefill, outcome) ==
    Let(with_prefill(messages, assistant_prefill), LAMBDA m :
        IF outcome.raised
        THEN [exc |-> "APIError", text |-> <<>>, requests |-> 1, sent |-> m.sent,
              messages |-> m.list]
        ELSE [exc |-> "none", text |-> assistant_prefill \o outcome.text,
              requests |-> 1, sent |-> m.sent, messages |-> m.list])

Clients == {"ClaudeClient", "SchemaClient"}

\* self.client.send_message(...), on the client object that was injected
send_message(cl, kwargs, messages, assistant_prefill, outcome) ==
    IF cl = "ClaudeClient"
    THEN ClaudeClient_send_message(kwargs, messages, assistant_prefill, outcome)
    ELSE SchemaClient_send_message(kwargs, messages, assistant_prefill, outcome)

-----------------------------------------------------------------------------
(* Character.wants_to_respond *)

NoExc == "none"

\* a wants_to_respond that takes any truthy value for a yes
wants_to_respond_truthy(cl, conversation_history, outcome) ==
    Let(send_message(cl, SchemaCall, conversation_history, <<>>, outcome), LAMBDA raw :
    Let(parse_json_response(raw.text, <<"wants_to_respond">>), LAMBDA parsed :
        IF raw.exc # NoExc \/ parsed.t # "dict"
        THEN [exc |-> NoExc, ret |-> FALSE, call |-> raw]
        ELSE [exc |-> NoExc, ret |-> Truthy(DictGet(parsed, <<"wants_to_respond">>)),
              call |-> raw]))

\* the try block of wants_to_respond: exc is the exception raised inside it, call what
\* its send_message call did
wants_to_respond_try(cl, conversation_history, outcome) ==
    Let(send_message(cl, SchemaCall, conversation_history, <<>>, outcome), LAMBDA raw :
    Let(parse_json_response(raw.text, <<"wants_to_respond">>), LAMBDA parsed :
        IF raw.exc # NoExc THEN [exc |-> raw.exc, ret |-> FALSE, call |-> raw]
        ELSE IF parsed.t # "dict"      \* parsed.get on a bool, number, str, list or None
             THEN [exc |-> "AttributeError", ret |-> FALSE, call |-> raw]
        ELSE Let(DictGet(parsed, <<"wants_to_respond">>), LAMBDA value :
                 IF value.t = "bool"   \* isinstance(value, bool)
                 THEN [exc |-> NoExc, ret |-> value.b, call |-> raw]
                 ELSE [exc |-> NoExc, ret |-> FALSE, call |-> raw])))

\* Character.wants_to_respond(conversation_history): except Exception: return False
wants_to_respond(cl, conversation_history, outcome) ==
    Let(wants_to_respond_try(cl, conversation_history, outcome), LAMBDA t :
        IF t.exc # NoExc THEN [exc |-> NoExc, ret |-> FALSE, call |-> t.call] ELSE t)

-----------------------------------------------------------------------------
(* Narrator.choose_next_speaker *)

max_attempts == 2

Character(name) == [name |-> name]

Min(S) == CHOOSE x \in S : \A y \in S : x <= y

\* a match that runs one loop only, taking the first candidate that matches in any way
match_single_loop(characters, choice_name) ==
    Let({i \in 1..Len(characters) :
            \/ Lower(characters[i].name) = Lower(choice_name)
            \/ Contains(Lower(choice_name), Lower(characters[i].name))
            \/ Contains(Lower(characters[i].name), Lower(choice_name))}, LAMBDA any :
        IF any # {} THEN Min(any) ELSE 0)

\* the two matching loops of one attempt: the index of the character returned, 0 for none
match(characters, choice_name) ==
    Let({i \in 1..Len(characters) : Lower(characters[i].name) = Lower(choice_name)},
        LAMBDA exact :
    Let({i \in 1..Len(characters) :
            \/ Contains(Lower(choice_name), Lower(characters[i].name))
            \/ Contains(Lower(characters[i].name), Lower(choice_name))},
        LAMBDA partial :
        IF exact # {} THEN Min(exact)
        ELSE IF partial # {} THEN Min(partial)
        ELSE 0))

\* an iteration that returned nothing: the exception exc was caught, or it continued
Miss(exc, call) == [done |-> FALSE, ret |-> None, exc |-> exc, call |-> call]

\* one iteration of the retry loop.  done: the iteration returned ret; otherwise the
\* loop goes on.  call is what the iteration's send_message call did.
attempt_body(cl, characters, conversation_history, outcome) ==
    Let(send_message(cl, SchemaCall, conversation_history, <<>>, outcome), LAMBDA raw :
    Let(JsonLoads(raw.text), LAMBDA parsed :
        IF raw.exc # NoExc THEN Miss(raw.exc, raw)
        ELSE IF ~parsed.ok THEN Miss("JSONDecodeError", raw)
        ELSE IF parsed.val.t # "dict" THEN Miss("AttributeError", raw)      \* parsed.get
        ELSE Let(DictGet(parsed.val, <<"next_speaker">>), LAMBDA got :
             Let(IF Truthy(got) THEN got ELSE JStr(<<>>), LAMBDA value :     \* ... or ""
                 IF value.t # "str" THEN Miss("AttributeError", raw)        \* .strip()
                 ELSE Let(Strip(value.s), LAMBDA choice_name :
                          IF choice_name = <<>> THEN Miss(NoExc, raw)
                          ELSE Let(match(characters, choice_name), LAMBDA m :
                                   IF m = 0 THEN Miss(NoExc, raw)
                                   ELSE [done |-> TRUE, ret |-> characters[m],
                                         exc |-> NoExc, call |-> raw]))))))

\* a fallback that gives up
fallback_none(characters) == None

\* the return after the loop
fallback(characters) == characters[1]

RECURSIVE attempts(_, _, _, _, _, _)
\* for attempt in range(1, max_attempts + 1); log holds the attempts made so far
attempts(cl, characters, conversation_history, outcomes, attempt, log) ==
    IF attempt > max_attempts
    THEN [ret |-> fallback(characters), log |-> log]
    ELSE Let(attempt_body(cl, characters, conversation_history, outcomes[attempt]),
             LAMBDA a :
             IF a.done THEN [ret |-> a.ret, log |-> Append(log, a)]
             ELSE attempts(cl, characters, conversation_history, outcomes, attempt + 1,
                           Append(log, a)))

\* a loop that always runs every attempt and keeps the last answer
RECURSIVE attempts_all(_, _, _, _, _, _)
attempts_all(cl, characters, conversation_history, outcomes, attempt, log0) ==
    Let(log0, LAMBDA log :
        IF attempt > max_attempts
        THEN [ret |-> IF \E i \in 1..Len(log) : log[i].done
                      THEN log[CHOOSE i \in 1..Len(log) :
                                  log[i].done /\ \A j \in 1..Len(log) : log[j].done => j <= i].ret
                      ELSE fallback(characters),
              log |-> log]
        ELSE attempts_all(cl, characters, conversation_history, outcomes, attempt + 1,
                          Append(log, attempt_body(cl, characters, conversation_history,
                                                   outcomes[attempt]))))

\* the retry loop without its early return
retry_loop_all(cl, characters, conversation_history, outcomes) ==
    attempts_all(cl, characters, conversation_history, outcomes, 1, <<>>)

\* the retry loop and the return that follows it
retry_loop(cl, characters, conversation_history, outcomes) ==
    attempts(cl, characters, conversation_history, outcomes, 1, <<>>)

\* a choose_next_speaker without the one-candidate return
choose_next_speaker_no_shortcut(cl, characters, conversation_history, outcomes) ==
    IF Len(characters) = 0 THEN [ret |-> None, log |-> <<>>]
    ELSE retry_loop(cl, characters, conversation_history, outcomes)

\* Narrator.choose_next_speaker(characters, conversation_history): ret is the value
\* returned, log the iterations of the retry loop it ran, in order
choose_next_speaker(cl, characters, conversation_history, outcomes) ==
    IF Len(characters) = 0 THEN [ret |-> None, log |-> <<>>]
    ELSE IF Len(characters) = 1 THEN [ret |-> characters[1], log |-> <<>>]
    ELSE retry_loop(cl, characters, conversation_history, outcomes)

-----------------------------------------------------------------------------
(* Conversation.trim_history_to_token_limit *)

MAX_HISTORY_TOKENS == 20000

\* ClaudeClient.count_tokens(text)
count_tokens(text) == StrLen(text) \div 4

RECURSIVE SumTokens(_)
\* the first loop: total_tokens over all messages
SumTokens(h) == IF h = <<>> THEN 0 ELSE count_tokens(Head(h).content) + SumTokens(Tail(h))

\* a loop that pops the newest message
RECURSIVE trim_loop_newest(_, _)
trim_loop_newest(h0, total_tokens) ==
    Let(h0, LAMBDA h :
        IF total_tokens > MAX_HISTORY_TOKENS /\ Len(h) > 1
        THEN trim_loop_newest(SubSeq(h, 1, Len(h) - 1),
                              total_tokens - count_tokens(h[Len(h)].content))
        ELSE h)

RECURSIVE trim_loop(_, _)
\* while total_tokens > MAX_HISTORY_TOKENS and len(self.history) > 1: pop(0)
trim_loop(h0, total_tokens0) ==
    Let(h0, LAMBDA h :
    Let(total_tokens0, LAMBDA total_tokens :
        IF total_tokens > MAX_HISTORY_TOKENS /\ Len(h) > 1
        THEN trim_loop(Tail(h), total_tokens - count_tokens(Head(h).content))
        ELSE h))

\* Conversation.trim_history_to_token_limit(): the history it leaves
trim_history_to_token_limit(h) == trim_loop(h, SumTokens(h))

-----------------------------------------------------------------------------
(* Narrator.narrate_scene, Narrator.generate_player_suggestions, Character.respond *)

\* d.get(key, default)
DictGetOr(d, key, default) ==
    IF \E i \in 1..Len(d.pairs) : d.pairs[i][1] = key THEN DictGet(d, key) ELSE default

\* str(v) as an f-string formats it
PyStr(v) ==
    CASE v.t = "str" -> v.s
      [] v.t = "null" -> <<"None">>
      [] v.t = "bool" -> IF v.b THEN <<"True">> ELSE <<"False">>
      [] v.t = "num" -> <<ToString(v.n)>>

\* a decision that takes any truthy value for a yes
needs_narration_truthy(decision_raw) ==
    Let(parse_json_response(decision_raw.text, <<"needs_narration">>),
        LAMBDA parsed_decision :
        /\ decision_raw.exc = NoExc
        /\ parsed_decision.t = "dict"
        /\ Truthy(DictGet(parsed_decision, <<"needs_narration">>)))

\* the decision phase of narrate_scene: needs_narration after it
needs_narration(decision_raw) ==
    Let(parse_json_response(decision_raw.text, <<"needs_narration">>),
        LAMBDA parsed_decision :
        /\ decision_raw.exc = NoExc
        /\ parsed_decision.t = "dict"       \* otherwise .get raises, and "" is returned
        /\ DictGet(parsed_decision, <<"needs_narration">>) = JBool(TRUE))

\* the try block of the generation phase: exc is the exception raised in it, ret the
\* scene field as parsed
scene_try(description_json) ==
    Let(JsonLoads(description_json.text), LAMBDA parsed :
        IF description_json.exc # NoExc
        THEN [exc |-> description_json.exc, ret |-> JStr(<<>>)]
        ELSE IF ~parsed.ok THEN [exc |-> "JSONDecodeError", ret |-> JStr(<<>>)]
        ELSE IF parsed.val.t # "dict" THEN [exc |-> "AttributeError", ret |-> JStr(<<>>)]
        ELSE [exc |-> NoExc, ret |-> DictGetOr(parsed.val, <<"scene">>, JStr(<<>>))])

\* a handler that catches the decoding error only
scene_except_decode(tried) ==
    IF tried.exc \in {NoExc, "JSONDecodeError"}
    THEN [exc |-> NoExc, ret |-> tried.ret]
    ELSE [exc |-> tried.exc, ret |-> JStr(<<>>)]

\* except Exception: return "" around the generation phase
scene_except(tried) ==
    [exc |-> NoExc, ret |-> IF tried.exc # NoExc THEN JStr(<<>>) ELSE tried.ret]

\* narrate_scene(conversation_history, last_speaker): exc is the exception that leaves
\* it, ret the value returned (a JSON value: the scene field is returned as parsed),
\* calls the send_message calls made; outcomes[1] answers the decision call,
\* outcomes[2] the scene call
narrate_scene(cl, conversation_history, last_speaker, outcomes) ==
    Let(send_message(cl, SchemaCall, conversation_history, <<>>, outcomes[1]),
        LAMBDA decision_raw :
        IF ~needs_narration(decision_raw)
        THEN [exc |-> NoExc, ret |-> JStr(<<>>), calls |-> <<decision_raw>>]
        ELSE Let(send_message(cl, SchemaCall, conversation_history, <<>>, outcomes[2]),
                 LAMBDA description_json :
             Let(scene_except(scene_try(description_json)), LAMBDA scene :
                 [exc |-> scene.exc, ret |-> scene.ret,
                  calls |-> <<decision_raw, description_json>>])))

\* len(v) is defined
Sized(v) == v.t \in {"str", "list", "dict"}

\* generate_player_suggestions(conversation_history, character_name): ret is the value
\* returned, the suggestions field as parsed, or [] after any exception: of the call,
\* of json.loads, of .get on a value that is no dict, of len(suggestions) in the log line
generate_player_suggestions(cl, conversation_history, character_name, outcome) ==
    Let(send_message(cl, SchemaCall, conversation_history, <<>>, outcome),
        LAMBDA response_json :
    Let(JsonLoads(response_json.text), LAMBDA parsed :
        IF response_json.exc # NoExc \/ ~parsed.ok \/ parsed.val.t # "dict"
        THEN [ret |-> JList(<<>>), calls |-> <<response_json>>]
        ELSE Let(DictGetOr(parsed.val, <<"suggestions">>, JList(<<>>)),
                 LAMBDA suggestions :
                 [ret |-> IF Sized(suggestions) THEN suggestions ELSE JList(<<>>),
                  calls |-> <<response_json>>])))

DialoguePrefill == <<"{", QUOTE, "dialogue", QUOTE, ":", " ", QUOTE>>   \* '{"dialogue": "'
DialogueKey == <<QUOTE, "dialogue", QUOTE, ":">>                        \* '"dialogue":'

\* s.find(sub): the units before the first occurrence, -1 for none
Find(s, sub) ==
    IF Contains(s, sub)
    THEN Min({i \in 0..(Len(s) - Len(sub)) : SubSeq(s, i + 1, i + Len(sub)) = sub})
    ELSE -1

\* the except branch of respond: the dialogue recovered from a response that is not JSON
recover_dialogue(response) ==
    IF Contains(response, DialogueKey)
    THEN Let(Find(response, DialogueKey) + Len(DialogueKey), LAMBDA start :
         Let(Strip(SubSeq(response, start + 1, Len(response))), LAMBDA rest :
         Let({i \in 2..Len(rest) : rest[i] = QUOTE}, LAMBDA ends :      \* rest.find('"', 1)
             IF rest # <<>> /\ rest[1] = QUOTE
             THEN IF ends # {} THEN SubSeq(rest, 2, Min(ends) - 1)
                  ELSE SubSeq(rest, 2, Len(rest))
             ELSE response)))
    ELSE response

\* what respond returns: a bare value, or the tuple (dialogue, behavior)
Bare(value) == [tuple |-> FALSE, value |-> value]
Pair(dialogue, behavior) == [tuple |-> TRUE, dialogue |-> dialogue, behavior |-> behavior]

\* the wait returns whatever was typed
wait_for_player_input_typed(quit, input) == input

\* ChatWindow.wait_for_player_input once its loop has ended: None after a quit
wait_for_player_input(quit, input) == IF quit THEN JNull ELSE input

\* a player branch that hands on whatever the window returned
respond_player_raw(response) == Bare(response)

\* the player branch of Character.respond after the wait: "" for None, else the text
respond_player(response) ==
    IF response = JNull THEN Bare(JStr(<<>>)) ELSE Bare(response)

\* if isinstance(result, tuple): dialogue, behavior = result
\* else: dialogue, behavior = result, None
unpack(result) ==
    IF result.tuple THEN [dialogue |-> result.dialogue, behavior |-> result.behavior]
    ELSE [dialogue |-> result.value, behavior |-> JNull]

\* the AI branch of Character.respond: exc is the exception that leaves respond,
\* dialogue and behavior the pair returned (JSON values; behavior JNull is None)
respond_ai(cl, conversation_history, outcome) ==
    Let(send_message(cl, PrefillCall, conversation_history, DialoguePrefill, outcome),
        LAMBDA response :
    Let(JsonLoads(response.text), LAMBDA parsed :
        IF response.exc # NoExc
        THEN [exc |-> response.exc, dialogue |-> JStr(<<>>), behavior |-> JNull,
              call |-> response]
        ELSE IF ~parsed.ok
             THEN [exc |-> NoExc, dialogue |-> JStr(recover_dialogue(response.text)),
                   behavior |-> JNull, call |-> response]
        ELSE IF parsed.val.t # "dict"
             THEN [exc |-> "AttributeError", dialogue |-> JStr(<<>>), behavior |-> JNull,
                   call |-> response]
        ELSE [exc |-> NoExc, dialogue |-> DictGetOr(parsed.val, <<"dialogue">>, JStr(<<>>)),
              behavior |-> DictGet(parsed.val, <<"behavior">>), call |-> response]))

-----------------------------------------------------------------------------
(* The entries Conversation.start appends to the history *)

Entry(role, content) == [role |-> role, content |-> content]

\* a situation appended as it came
situation_entry_bare(new_situation) == Entry("user", new_situation)

\* f"[Situation: {new_situation}]"
situation_entry(new_situation) ==
    Entry("user", <<"[", "Situation", ":", " ">> \o new_situation \o <<"]">>)

\* f"[Scene: {scene_desc}]"
scene_entry(scene_desc) ==
    Entry("user", <<"[", "Scene", ":", " ">> \o PyStr(scene_desc) \o <<"]">>)

\* f"[Hint for {speaker.name}: {hint_text}]"
hint_entry(name, hint_text) ==
    Entry("user", <<"[", "Hint for", " ">> \o name \o <<":", " ">> \o PyStr(hint_text) \o <<"]">>)

\* a line that leaves the speaker out
line_entry_anonymous(name, dialogue, behavior) ==
    IF Truthy(behavior)
    THEN Entry("assistant", PyStr(dialogue)
                               \o <<" ", "[", "behavior", ":", " ">> \o PyStr(behavior) \o <<"]">>)
    ELSE Entry("assistant", PyStr(dialogue))

\* f"{speaker.name}: {dialogue} [behavior: {behavior}]", or f"{speaker.name}: {dialogue}"
line_entry(name, dialogue, behavior) ==
    IF Truthy(behavior)
    THEN Entry("assistant", name \o <<":", " ">> \o PyStr(dialogue)
                               \o <<" ", "[", "behavior", ":", " ">> \o PyStr(behavior) \o <<"]">>)
    ELSE Entry("assistant", name \o <<":", " ">> \o PyStr(dialogue))

ContinueText == <<"Continue the conversation.">>

\* the acknowledgment in the role of the line before it
continue_entry_assistant == Entry("assistant", ContinueText)

continue_entry == Entry("user", ContinueText)

-----------------------------------------------------------------------------
(* Narrator.generate_story_setup and the check main makes on its result *)

TitlePrefill == <<"{", QUOTE, "title", QUOTE, ":", " ", QUOTE>>

\* (value or "") taken as it is
title_unstripped(value) ==
    IF ~Truthy(value) THEN [exc |-> NoExc, s |-> <<>>]
    ELSE IF value.t # "str" THEN [exc |-> "AttributeError", s |-> <<>>]
    ELSE [exc |-> NoExc, s |-> value.s]

\* (value or "").strip()
title_stripped(value) ==
    IF ~Truthy(value) THEN [exc |-> NoExc, s |-> <<>>]
    ELSE IF value.t # "str" THEN [exc |-> "AttributeError", s |-> <<>>]
    ELSE [exc |-> NoExc, s |-> Strip(value.s)]

\* generate_story_setup(story_prompt): exc is the exception that leaves it, ret the
\* setup returned, call the send_message call
generate_story_setup(cl, story_prompt, outcome) ==
    Let(send_message(cl, PrefillCall,
                     <<[role |-> "user",
                        content |-> <<"Story concept", ":", " ">> \o story_prompt]>>,
                     TitlePrefill, outcome),
        LAMBDA response :
    Let(JsonLoads(response.text), LAMBDA setup :
        IF response.exc # NoExc
        THEN [exc |-> response.exc, ret |-> JNull, call |-> response]
        ELSE IF ~setup.ok
        THEN [exc |-> "ValueError", ret |-> JNull, call |-> response]
        ELSE IF setup.val.t # "dict"
        THEN [exc |-> "AttributeError", ret |-> JNull, call |-> response]
        ELSE Let(title_stripped(DictGet(setup.val, <<"title">>)), LAMBDA title :
                 IF title.exc # NoExc
                 THEN [exc |-> title.exc, ret |-> JNull, call |-> response]
                 ELSE IF title.s = <<>>
                 THEN [exc |-> "ValueError", ret |-> JNull, call |-> response]
                 ELSE [exc |-> NoExc, ret |-> setup.val, call |-> response])))

\* main after generate_story_setup: "exit" is sys.exit(1), "review" the step to the
\* review of the characters
main_story(generated) ==
    IF generated.exc # NoExc THEN "exit"
    ELSE Let(generated.ret, LAMBDA setup :
         Let(title_stripped(DictGet(setup, <<"title">>)), LAMBDA title :
             IF \/ title.s = <<>>
                \/ ~Truthy(DictGetOr(setup, <<"opening_scene">>, JStr(<<>>)))
                \/ ~Truthy(DictGetOr(setup, <<"characters">>, JList(<<>>)))
             THEN "exit" ELSE "review"))

------------------------------------------------------------------------------
(* ElevenLabsTTS: the audio cache and the task queue.  The cache is an        *)
(* OrderedDict, modelled as the sequence of its entries, oldest position      *)
(* first; the audio of an entry is named by the voice id and the text of the  *)
(* request that had it synthesised.                                           *)

NARRATOR_VOICE_ID == <<"n">>

\* f"{voice_id}|{text}", of which the key is the SHA-256 digest (taken as injective)
get_cache_key(voice_id, text) == voice_id \o <<"|">> \o text

CacheKeys(cache) == {cache[i].key : i \in 1..Len(cache)}

CacheIndex(cache, key) == CHOOSE i \in 1..Len(cache) : cache[i].key = key

Without(seq, i) == SubSeq(seq, 1, i - 1) \o SubSeq(seq, i + 1, Len(seq))

\* a hit that leaves the entry where it is
move_to_end_never(cache, key) == cache

\* self._audio_cache.move_to_end(cache_key)
move_to_end(cache, key) ==
    Without(cache, CacheIndex(cache, key)) \o <<cache[CacheIndex(cache, key)]>>

\* while len(self._audio_cache) > self._cache_size: pop the first key
RECURSIVE evict(_, _)
evict(cache, cache_size) ==
    IF Len(cache) > cache_size /\ cache # <<>> THEN evict(Tail(cache), cache_size) ELSE cache

\* self._audio_cache[cache_key] = audio_bytes_final, then the eviction loop: assigning
\* to a key the dictionary holds replaces its value and leaves its position
cache_store(cache, key, audio, cache_size) ==
    IF key \in CacheKeys(cache)
    THEN evict([cache EXCEPT ![CacheIndex(cache, key)].audio = audio], cache_size)
    ELSE evict(Append(cache, [key |-> key, audio |-> audio]), cache_size)

\* a task of the queue: the tuple (voice_id, text, label, display_callback) with the
\* number of the request that put it there
Task(id, voice_id, text, label, display_callback) ==
    [id |-> id, voice_id |-> voice_id, text |-> text, label |-> label,
     display_callback |-> display_callback]

\* self._task_queue.put(...)
enqueue(queue, task) == Append(queue, task)

\* a get that takes the task put last
queue_get_last(queue) == [task |-> queue[Len(queue)], rest |-> SubSeq(queue, 1, Len(queue) - 1)]

\* self._task_queue.get() on a queue.Queue that holds a task
queue_get(queue) == [task |-> Head(queue), rest |-> Tail(queue)]

\* speak_narrator: the queue after the call
speak_narrator(queue, id, text, display_callback) ==
    IF Strip(text) = <<>>
    THEN queue
    ELSE enqueue(queue, Task(id, NARRATOR_VOICE_ID, text, "narrator", display_callback))

\* speak_character: the queue after the call
speak_character(queue, id, voice_id, text, display_callback) ==
    IF Strip(text) = <<>> THEN queue
    ELSE IF voice_id = <<>> THEN queue
    ELSE enqueue(queue, Task(id, voice_id, text, "character", display_callback))

\* self.tts.wait_for_queue(): the class defines no such method, the attribute lookup raises
wait_for_queue == [exc |-> "AttributeError"]

\* preview_text of preview_voice
PreviewText == <<"Hello">>

-----------------------------------------------------------------------------
(* ElevenLabsTTS: finding, creating and falling back to a voice.  A voice of  *)
(* the library is a record of its voice_id, name, description and the joined  *)
(* values of its labels; the object keeps _fallback_voices and                *)
(* _fallback_index.                                                           *)

Male == <<"m", "a", "l", "e">>
Female == <<"f", "e">> \o Male
Man == <<"m", "a", "n">>
Woman == <<"w", "o">> \o Man
Boy == <<"b", "o", "y">>
Girl == <<"g", "i", "r", "l">>

wants_male(search_lower) == \E tok \in {Male, Man, Boy} : Contains(search_lower, tok)

wants_female(search_lower) == \E tok \in {Female, Woman, Girl} : Contains(search_lower, tok)

\* f"{name} {desc} {labels_text}".strip(), all in lower case
voice_text(v) ==
    Strip(Lower(v.name) \o <<" ">> \o Lower(v.description) \o <<" ">> \o Lower(v.labels))

\* re.split(r"[\s,]+", search_lower) without its empty pieces
RECURSIVE SplitTokens(_, _, _)
SplitTokens(s, cur, acc) ==
    IF s = <<>> THEN (IF cur = <<>> THEN acc ELSE Append(acc, cur))
    ELSE IF IsSpace(Head(s)) \/ Head(s) = ","
         THEN SplitTokens(Tail(s), <<>>, IF cur = <<>> THEN acc ELSE Append(acc, cur))
         ELSE SplitTokens(Tail(s), Append(cur, Head(s)), acc)

tokens(search_lower) == SplitTokens(search_lower, <<>>, <<>>)

\* first pass of _pick_fallback_voice: the voices that do not conflict with a gender hint
filtered(voices, search_lower) ==
    SelectSeq(voices, LAMBDA v :
        /\ ~(wants_male(search_lower) /\ Contains(voice_text(v), Female))
        /\ ~(wants_female(search_lower) /\ Contains(voice_text(v), Male)))

score_voice(v, search_lower) ==
    Let(tokens(search_lower), LAMBDA toks :
        Cardinality({i \in 1..Len(toks) : Contains(voice_text(v), toks[i])})
        + (IF wants_male(search_lower) /\ Contains(voice_text(v), Male) THEN 2 ELSE 0)
        + (IF wants_female(search_lower) /\ Contains(voice_text(v), Female) THEN 2 ELSE 0))

\* sorted(candidates, key=score_voice, reverse=True): highest score first, and voices of
\* equal score in the order they had
RECURSIVE sorted_by_score(_, _)
sorted_by_score(candidates, search_lower) ==
    IF candidates = <<>> THEN <<>>
    ELSE LET best == CHOOSE i \in 1..Len(candidates) :
                         /\ \A j \in 1..Len(candidates) :
                                score_voice(candidates[j], search_lower)
                                    <= score_voice(candidates[i], search_lower)
                         /\ \A j \in 1..(i - 1) :
                                score_voice(candidates[j], search_lower)
                                    < score_voice(candidates[i], search_lower)
         IN  <<candidates[best]>> \o sorted_by_score(Without(candidates, best), search_lower)

\* the object as constructed: nothing loaded, the round-robin index at 0
NewTts == [fallback_voices |-> <<>>, fallback_index |-> 0]

\* _load_fallback_voice_ids: one GET of the whole library unless a non-empty one is cached
load_fallback_voice_ids(tts, library_reply) ==
    IF tts.fallback_voices # <<>> THEN tts
    ELSE IF library_reply.raised THEN [tts EXCEPT !.fallback_voices = <<>>]
    ELSE [tts EXCEPT !.fallback_voices = library_reply.voices]

\* the candidates of one selection, in the order the index is applied to
scored(fallback_voices, narrator_voice_id, search) ==
    Let(Lower(search), LAMBDA search_lower :
    Let(filtered(fallback_voices, search_lower), LAMBDA f :
    Let(IF f # <<>> THEN f ELSE fallback_voices, LAMBDA candidates :
    Let(SelectSeq(candidates, LAMBDA v : v.voice_id # narrator_voice_id), LAMBDA non_narrator :
        sorted_by_score(IF non_narrator # <<>> THEN non_narrator ELSE candidates,
                        search_lower)))))

\* _pick_fallback_voice: the voice id returned and the object afterwards
pick_fallback_voice(tts0, narrator_voice_id, search, library_reply) ==
    Let(load_fallback_voice_ids(tts0, library_reply), LAMBDA tts :
        IF tts.fallback_voices = <<>> THEN [ret |-> JNull, tts |-> tts]
        ELSE Let(scored(tts.fallback_voices, narrator_voice_id, search), LAMBDA s :
                 [ret |-> JStr(s[(tts.fallback_index % Len(s)) + 1].voice_id),
                  tts |-> [tts EXCEPT !.fallback_index = @ + 1]]))

\* find_voice_id: via tells which return statement gave the result
find_voice_id(tts, narrator_voice_id, search0, search_reply, library_reply) ==
    Let(Strip(search0), LAMBDA search :
        IF search = <<>> THEN [ret |-> JNull, tts |-> tts, via |-> "blank"]
        ELSE IF search_reply.raised THEN [ret |-> JNull, tts |-> tts, via |-> "error"]
        ELSE IF search_reply.voices = <<>>
                \/ search_reply.voices[1].voice_id = narrator_voice_id
             THEN Let(pick_fallback_voice(tts, narrator_voice_id, search, library_reply),
                      LAMBDA p : [ret |-> p.ret, tts |-> p.tts, via |-> "fallback"])
             ELSE [ret |-> JStr(search_reply.voices[1].voice_id), tts |-> tts,
                   via |-> "search"])

\* design_and_create_voice: the voice id returned and the POSTs made
design_and_create_voice(voice_name0, voice_description0, design_reply, create_reply) ==
    Let(Strip(voice_description0), LAMBDA voice_description :
        IF voice_description = <<>> \/ StrLen(voice_description) < 20
            THEN [ret |-> JNull, posts |-> 0]
        ELSE IF Strip(voice_name0) = <<>> THEN [ret |-> JNull, posts |-> 0]
        ELSE IF design_reply.raised THEN [ret |-> JNull, posts |-> 1]
        ELSE IF design_reply.previews = <<>> THEN [ret |-> JNull, posts |-> 1]
        ELSE IF ~Truthy(design_reply.previews[1]) THEN [ret |-> JNull, posts |-> 1]
        ELSE IF create_reply.raised THEN [ret |-> JNull, posts |-> 2]
        ELSE IF ~Truthy(create_reply.voice_id) THEN [ret |-> JNull, posts |-> 2]
        ELSE [ret |-> create_reply.voice_id, posts |-> 2])

\* find_or_create_voice: by tells which of its three return statements gave the result;
\* replies holds what the requests of the call are answered
find_or_create_voice(tts, narrator_voice_id, character_name, voice_description, auto_create, replies) ==
    Let(find_voice_id(tts, narrator_voice_id, voice_description, replies.search,
                      replies.library),
        LAMBDA found :
        IF Truthy(found.ret)
            THEN [ret |-> found.ret, tts |-> found.tts, by |-> "find_voice_id",
                  via |-> found.via, posts |-> 0]
        ELSE IF auto_create
            THEN Let(design_and_create_voice(character_name, voice_description,
                                             replies.design, replies.create),
                     LAMBDA made : [ret |-> made.ret, tts |-> found.tts,
                                    by |-> "design_and_create_voice", via |-> found.via,
                                    posts |-> made.posts])
        ELSE Let(pick_fallback_voice(found.tts, narrator_voice_id, voice_description,
                                     replies.library),
                 LAMBDA p : [ret |-> p.ret, tts |-> p.tts, by |-> "_pick_fallback_voice",
                             via |-> found.via, posts |-> 0]))

-----------------------------------------------------------------------------
(* Sample data *)

Al == <<"A", "l">>
Ali == <<"A", "l", "i">>
Bo == <<"B", "o">>

Str(text) == <<QUOTE>> \o text \o <<QUOTE>>                      \* "text"
Obj(key, value) == <<"{">> \o Str(<<key>>) \o <<":", " ">> \o value \o <<"}">>

SeqsUpTo(S, n) == UNION {[1..k -> S] : k \in 0..n}

OpeningShort == <<"T", "h", "e", " ", "l", "a", "b", ".">>
\* histories handed to a function that only passes them on
SampleHistories ==
    SeqsUpTo({Entry("user", OpeningShort), Entry("assistant", Al \o <<":", " ">> \o <<"H", "i">>)}, 2)

\* what the provider may answer to the speaker question
ChooseReplies ==
    { Obj("next_speaker", Str(Al)),
      Obj("next_speaker", Str(<<"a", "l", "i">>)),
      Obj("next_speaker", Str(<<"l">>)),
      Obj("next_speaker", Str(<<"Z">>)),
      Obj("next_speaker", Str(<<" ", "B", "O", " ">>)) \o <<NL>>,
      Obj("next_speaker", Str(<<" ">>)),
      Obj("next_speaker", <<"5">>),
      Obj("next_speaker", <<"null">>),
      Obj("speaker", Str(Bo)),
      <<"[">> \o Str(Bo) \o <<"]">>,
      Bo,
      Obj("next_speaker", Str(Bo)) \o <<NL>> \o Bo }

ChooseOutcomes == {Raises} \cup {Returns(t) : t \in ChooseReplies}

\* what the provider may answer to the interest question
WantsReplies ==
    { Obj("wants_to_respond", <<"true">>),
      Obj("wants_to_respond", <<"false">>),
      <<" ">> \o Obj("wants_to_respond", <<"true">>) \o <<NL>>,
      Obj("wants_to_respond", Str(<<"true">>)),
      Obj("wants_to_respond", <<"1">>),
      Obj("wants_to_respond", <<"null">>),
      Obj("wants", <<"true">>),
      <<"true">>,
      <<"[", "true", "]">>,
      <<"y", "e", "s">>,
      <<>>,
      Obj("wants_to_respond", <<"true">>) \o <<NL, "y", "e", "s">>,
      <<"y", "e", "s", NL>> \o Obj("wants_to_respond", <<"true">>),
      <<"{">> \o Str(<<"wants_to_respond">>) \o <<":", NL, "true", "}">> }

WantsOutcomes == {Raises} \cup {Returns(t) : t \in WantsReplies}

\* what the provider may answer to the narration question
DecisionReplies ==
    { Obj("needs_narration", <<"true">>),
      Obj("needs_narration", <<"false">>),
      <<" ">> \o Obj("needs_narration", <<"true">>) \o <<NL>>,
      Obj("needs_narration", Str(<<"true">>)),
      Obj("needs_narration", <<"1">>),
      Obj("needs_narration", <<"null">>),
      Obj("narration", <<"true">>),
      <<"true">>,
      <<"[", "true", "]">>,
      <<"y", "e", "s">>,
      <<>>,
      Obj("needs_narration", <<"true">>) \o <<NL, "y", "e", "s">>,
      <<"y", "e", "s", NL>> \o Obj("needs_narration", <<"true">>) }

DecisionOutcomes == {Raises} \cup {Returns(t) : t \in DecisionReplies}

\* what the provider may answer to the request for a scene
SceneReplies ==
    { Obj("scene", Str(<<"D", "u", "s", "k">>)),
      Obj("scene", Str(<<>>)),
      Obj("scene", <<"7">>),
      Obj("text", Str(<<"D", "u", "s", "k">>)),
      <<"D", "u", "s", "k">>,
      <<"[", "]">>,
      Obj("scene", Str(<<"D", "u", "s", "k">>)) \o <<NL, "y", "e", "s">> }

SceneOutcomes == {Raises} \cup {Returns(t) : t \in SceneReplies}

\* what the provider may continue the prefill {"title": " with
Field(key, value) == <<",", " ">> \o Str(<<key>>) \o <<":", " ">> \o value
SceneField == Field("opening_scene", Str(<<"D", "u", "s", "k">>))
CastField == Field("characters", <<"[">> \o Obj("name", Str(<<"A", "l">>)) \o <<"]">>)
SetupReplies ==
    { <<"T", QUOTE>> \o SceneField \o CastField \o <<"}">>,
      <<QUOTE>> \o SceneField \o CastField \o <<"}">>,
      <<" ", QUOTE>> \o SceneField \o CastField \o <<"}">>,
      <<"T", QUOTE>> \o CastField \o <<"}">>,
      <<"T", QUOTE>> \o Field("opening_scene", Str(<<>>)) \o CastField \o <<"}">>,
      <<"T", QUOTE>> \o SceneField \o <<"}">>,
      <<"T", QUOTE>> \o SceneField \o Field("characters", <<"[", "]">>) \o <<"}">>,
      <<"T", QUOTE>> \o SceneField \o Field("characters", <<"null">>) \o <<"}">>,
      <<"T", QUOTE, "}">>,
      <<"T", QUOTE>> \o SceneField \o CastField \o Field("title", <<"5">>) \o <<"}">>,
      <<"T", QUOTE>> \o SceneField \o CastField \o Field("title", <<"null">>) \o <<"}">>,
      <<"T", QUOTE>> \o SceneField \o CastField,
      <<"T">>,
      <<>> }

SetupOutcomes == {Raises} \cup {Returns(t) : t \in SetupReplies}
StoryPrompts == {<<>>, <<"s">>, <<"a", " ", "b">>}

\* what the provider may answer to the request for suggestions
SuggestReplies ==
    { Obj("suggestions", <<"[", "]">>),
      Obj("suggestions", <<"[">> \o Str(<<"A", "s", "k">>) \o <<"]">>),
      Obj("suggestions", <<"[">> \o Str(<<"A", "s", "k">>) \o <<",", " ">>
                            \o Str(<<"G", "o">>) \o <<",", " ">> \o Str(<<"N", "o", "d">>)
                            \o <<"]">>),
      Obj("suggestions", <<"[">> \o Str(<<"A", "s", "k">>) \o <<",", " ", "5", ",", " ">>
                            \o Str(<<"N", "o", "d">>) \o <<"]">>),
      Obj("suggestions", <<"[", "1", ",", " ", "2", ",", " ", "3", ",", " ", "4", ",", " ",
                           "5", ",", " ", "6", "]">>),
      Obj("suggestions", Str(<<"A", "s", "k">>)),
      Obj("suggestions", Obj("a", <<"1">>)),
      Obj("suggestions", <<"null">>),
      Obj("suggestions", <<"5">>),
      Obj("hints", <<"[">> \o Str(<<"A", "s", "k">>) \o <<"]">>),
      <<"[">> \o Str(<<"A", "s", "k">>) \o <<"]">>,
      <<"A", "s", "k">>,
      <<>> }

SuggestRichOutcomes == {Raises} \cup {Returns(t) : t \in SuggestReplies}

\* what the provider may continue the prefill {"dialogue": " with
RespondReplies ==
    { <<"H", "i", QUOTE, "}">>,
      <<"H", "i", QUOTE>> \o Field("behavior", Str(<<"n", "o", "d", "s">>)) \o <<"}">>,
      <<"H", "i", QUOTE>> \o Field("behavior", <<"null">>) \o <<"}">>,
      <<"H", "i", QUOTE>> \o Field("dialogue", <<"5">>) \o <<"}">>,
      <<QUOTE, "}">>,
      <<"H", "i">>,
      <<"H", "i", QUOTE>>,
      <<"H", "i", QUOTE>> \o Field("behavior", Str(<<"n", "o", "d", "s">>)),
      <<QUOTE>> \o Field("behavior", Str(<<"n", "o", "d", "s">>)),
      <<QUOTE, " ", "o", "h">>,
      <<" ">>,
      <<>> }

RespondRichOutcomes == {Raises} \cup {Returns(t) : t \in RespondReplies}

\* texts handed to parse_json_response: JSON records, bare JSON values, prose, a record
\* before and after prose, each as it is and with blanks or line breaks around it
ParseBodies ==
    { Obj("a", <<"1">>), <<"true">>, <<"5">>, Str(<<"s">>), <<"[", "1", "]">>, <<"null">>,
      <<"y", "e", "s">>, <<>>,
      Obj("a", <<"1">>) \o <<NL, "y", "e", "s">>,
      Obj("a", <<"1">>) \o <<"\r", NL, "y", "e", "s">>,
      <<"y", "e", "s", NL>> \o Obj("a", <<"1">>),
      Obj("a", <<"1">>) \o <<" ", "y", "e", "s">>,
      <<"{">> \o Str(<<"a">>) \o <<":", NL, "1", "}">>,
      <<"y", "e", "s", NL, "n", "o">> }

ParseTexts ==
    UNION {{b, <<" ">> \o b, b \o <<NL>>, <<NL>> \o b \o <<" ">>} : b \in ParseBodies}

\* history entries of several sizes: 0, 0, 1, 10000, 20000 and 20001 tokens
TrimEntries ==
    { Entry("user", <<>>),
      Entry("assistant", <<"B", "o", ":">>),
      Entry("user", <<"[", "H", "i", "]">>),
      Entry("assistant", <<FILLER>>),
      Entry("user", <<FILLER, FILLER>>),
      Entry("user", <<FILLER, "a", "b", "c", "d", FILLER>>) }

\* the send_message calls of core.py: their keywords and their prefill
CallSites ==
    { [site |-> "wants_to_respond", kwargs |-> SchemaCall, prefill |-> <<>>],
      [site |-> "respond", kwargs |-> PrefillCall, prefill |-> <<"{", QUOTE, "dialogue", QUOTE, ":", " ", QUOTE>>],
      [site |-> "generate_story_setup", kwargs |-> PrefillCall, prefill |-> <<"{", QUOTE, "title", QUOTE, ":", " ", QUOTE>>],
      [site |-> "choose_next_speaker", kwargs |-> SchemaCall, prefill |-> <<>>],
      [site |-> "generate_player_suggestions", kwargs |-> SchemaCall, prefill |-> <<>>],
      [site |-> "narrate_scene.decision", kwargs |-> SchemaCall, prefill |-> <<>>],
      [site |-> "narrate_scene.scene", kwargs |-> SchemaCall, prefill |-> <<>>],
      [site |-> "start.situation", kwargs |-> SchemaCall, prefill |-> <<>>] }

SendOutcomes ==
    {Raises} \cup {Returns(t) : t \in {<<>>, Bo, Obj("next_speaker", Str(Bo)),
                                       <<"H", "i", QUOTE, "}">>}}

-----------------------------------------------------------------------------
(* Conversation.start: the steps of one round that are single expressions *)

\* the try block of the situation injection: exc is the exception the except clause
\* catches, ret the stripped situation, call what the send_message call did
new_situation(cl, conversation_history, outcome) ==
    Let(send_message(cl, SchemaCall, conversation_history, <<>>, outcome),
        LAMBDA new_situation_raw :
    Let(parse_json_response(new_situation_raw.text, <<"situation">>),
        LAMBDA parsed_situation :
        IF new_situation_raw.exc # NoExc
        THEN [exc |-> new_situation_raw.exc, ret |-> <<>>, call |-> new_situation_raw]
        ELSE IF parsed_situation.t # "dict"                         \* .get
             THEN [exc |-> "AttributeError", ret |-> <<>>, call |-> new_situation_raw]
        ELSE Let(DictGet(parsed_situation, <<"situation">>), LAMBDA got :
             Let(IF Truthy(got) THEN got ELSE JStr(<<>>), LAMBDA value :     \* ... or ""
                 IF value.t # "str"                                 \* .strip()
                 THEN [exc |-> "AttributeError", ret |-> <<>>, call |-> new_situation_raw]
                 ELSE [exc |-> NoExc, ret |-> Strip(value.s), call |-> new_situation_raw]))))

\* for char in v: raises TypeError for a value that is not iterable
Iterable(v) == v.t \in {"str", "list", "dict"}

\* suggestions[0] of a truthy suggestions value
first_suggestion(suggestions) ==
    CASE suggestions.t = "list" -> [exc |-> NoExc, ret |-> suggestions.items[1]]
      [] suggestions.t = "str" -> [exc |-> NoExc, ret |-> JStr(<<suggestions.s[1]>>)]
      [] suggestions.t = "dict" -> [exc |-> "KeyError", ret |-> JNull]
      [] OTHER -> [exc |-> "TypeError", ret |-> JNull]

\* Conversation.characters
Cast == <<Character(Al), Character(Bo)>>

RECURSIVE poll_from(_, _, _, _)
\* for character in self.characters: if character.wants_to_respond(self.history):
\* append; from the character at index i on.  outcomes[i] answers the call of character i
poll_from(cl, conversation_history, outcomes, i) ==
    IF i > Len(Cast) THEN <<>>
    ELSE IF wants_to_respond(cl, conversation_history, outcomes[i]).ret
         THEN <<Cast[i]>> \o poll_from(cl, conversation_history, outcomes, i + 1)
         ELSE poll_from(cl, conversation_history, outcomes, i + 1)

\* interested_characters after the loop over self.characters
poll(cl, conversation_history, outcomes) == poll_from(cl, conversation_history, outcomes, 1)

\* what the round at hand has done so far
NoRound ==
    [base |-> 0, polls |-> 0, first_poll |-> <<>>, situation |-> <<>>, repoll |-> <<>>,
     chosen |-> FALSE, responders |-> <<>>, said |-> FALSE, dialogue |-> JNull,
     behavior |-> JNull, calls |-> <<>>, prev |-> JNull, narrated |-> <<>>,
     suggested |-> <<>>, raised |-> NoExc, no |-> 0, scene |-> JNull,
     narration |-> None, returned |-> None, direct |-> {}]

\* the widgets a method of ChatWindow reads or writes in the thread that calls it
\* ("root" for root.update(), which runs the Tk event loop); the methods that only
\* put events in message_queue touch none
widgets_of(method) ==
    CASE method = "show_hint_link" -> {"chat_display"}
      [] method = "enable_player_input" -> {"dialogue_entry", "submit_button"}
      [] method = "wait_for_player_input" -> {"root"}
      [] OTHER -> {}

\* the methods among those called that touch a widget
Direct(methods) == {m \in methods : widgets_of(m) # {}}

\* a send_message call of the round: the method that made it and, for a method of
\* Character, the character it was called on
Call(site, who) == <<site, who>>

\* the calls of one pass over self.characters: wants_to_respond calls send_message once
PollCalls == [i \in 1..Len(Cast) |-> Call("wants_to_respond", Cast[i].name)]

\* one call of the narrator for each send_message result in calls
NarratorCalls(site, calls) == [k \in 1..Len(calls) |-> Call(site, <<>>)]

\* round number no, which starts with base entries in the history, after a round in
\* which prev spoke (JNull: no round before it ran to its end)
NewRound(no, base, prev) == [NoRound EXCEPT !.no = no, !.base = base, !.prev = prev]

\* what the provider may answer inside a round
WantsSmall == {Raises, Returns(Obj("wants_to_respond", <<"true">>)),
               Returns(Obj("wants_to_respond", <<"false">>))}
Boom == <<"B", "o", "o", "m">>
SituationOutcomes ==
    {Raises, Returns(Obj("situation", Str(Boom))), Returns(Obj("situation", Str(<<" ">>))),
     Returns(<<"[", "]">>)}
ChooseSmall == {Raises, Returns(Obj("next_speaker", Str(Al))),
                Returns(Obj("next_speaker", Str(Bo)))}
Dusk == <<"D", "u", "s", "k">>
NarrateOutcomes ==
    { <<Raises, Raises>>,
      <<Returns(Obj("needs_narration", <<"true">>)), Returns(Obj("scene", Str(Dusk)))>>,
      <<Returns(Obj("needs_narration", <<"true">>)), Returns(Dusk)>>,
      <<Returns(Obj("needs_narration", <<"true">>)), Raises>>,
      <<Returns(Obj("needs_narration", <<"true">>)), Returns(Obj("scene", <<"7">>))>> }
SuggestOutcomes ==
    {Raises, Returns(Obj("suggestions", <<"[">> \o Str(<<"A", "s", "k">>) \o <<"]">>)),
     Returns(Obj("suggestions", <<"[", "]">>))}
RespondOutcomes ==
    {Raises, Returns(<<"H", "i", QUOTE, "}">>), Returns(<<"H", "i">>),
     Returns(<<"H", "i", QUOTE, ",", " ">> \o Str(<<"behavior">>) \o <<":", " ">>
                 \o Str(<<"n", "o", "d", "s">>) \o <<"}">>)}
PlayerTexts == {<<"Y", "o">>}
\* the characters whose button the player presses
Playable == {Al}
Openings == {OpeningShort, <<FILLER, FILLER, FILLER>>}

-----------------------------------------------------------------------------
(* Conversation.start as the steps of the conversation thread, with no TTS  *)
(* client, and the handlers of the window that run on the GUI thread        *)

Idle == [op |-> "none", done |-> FALSE]

\* after Conversation.__init__ and, with a window, ChatWindow.__init__
Init ==
    /\ unit = Idle
    /\ client \in Clients
    /\ gui \in BOOLEAN
    \* the platform is read by the console's quit check only
    /\ platform \in IF gui THEN {"linux"} ELSE {"linux", "win32"}
    /\ stdin = <<>>
    /\ opening_scene \in Openings
    /\ history = <<>>
    /\ pc = "not_started"
    /\ turn = 0
    /\ quit_requested = FALSE
    /\ selected_character = JNull
    /\ last_speaker_name = JNull
    /\ interested = <<>>
    /\ speaker = None
    /\ is_player_turn = FALSE
    /\ player_input = JNull
    /\ waiting_for_player = FALSE
    /\ exit = "none"
    /\ round = NoRound

\* the loop is left: by break, by exhaustion of range(max_turns) or by an exception
Leave(how) == pc' = "done" /\ exit' = how

\* start, up to the loop: the opening scene is shown and appended
Start ==
    /\ pc = "not_started"
    /\ history' = Append(history, Entry("user", opening_scene))
    /\ pc' = "round_top"
    /\ UNCHANGED <<unit, client, gui, platform, stdin, turn, quit_requested, selected_character,
                   last_speaker_name, interested, speaker, is_player_turn, opening_scene,
                   player_input, waiting_for_player, exit, round>>

\* user_input.strip().upper()
Upper(s) ==
    [i \in 1..Len(s) |->
        IF \E k \in 1..Len(LowerCase) : LowerCase[k] = s[i]
        THEN UpperCase[CHOOSE k \in 1..Len(LowerCase) : LowerCase[k] = s[i]]
        ELSE s[i]]

\* the lines somebody at the terminal types
TypedLines == {<<"q", NL>>, <<"x", NL>>}

\* Conversation._check_for_quit: ret is the value returned, rest the terminal's unread
\* lines after it.  With a window the Quit button decides; without one, and not on
\* win32, one waiting line is read and compared with Q
check_for_quit ==
    IF gui THEN [ret |-> quit_requested, rest |-> stdin]
    ELSE IF platform # "win32" /\ stdin # <<>>                    \* select.select
         THEN [ret |-> Upper(Strip(Head(stdin))) = <<"Q">>, rest |-> Tail(stdin)]
         ELSE [ret |-> FALSE, rest |-> stdin]

\* for turn in range(max_turns): _check_for_quit, then trim_history_to_token_limit
RoundTop ==
    /\ pc = "round_top"
    /\ IF turn >= MaxTurns
       THEN Leave("max_turns") /\ round' = NoRound /\ UNCHANGED <<history, stdin>>
       ELSE \E quit \in {check_for_quit} :
               /\ stdin' = quit.rest
               /\ IF quit.ret
                  THEN Leave("quit") /\ round' = NoRound /\ UNCHANGED history
                  ELSE /\ history' = trim_history_to_token_limit(history)
                       /\ round' = NewRound(turn + 1, Len(history'),
                                            IF round.said THEN JStr(speaker.name)
                                            ELSE JNull)
                       /\ pc' = "poll"
                       /\ exit' = exit
    \* the locals of the iteration before are dead: each is assigned before it is read
    /\ interested' = <<>>
    /\ speaker' = None
    /\ is_player_turn' = FALSE
    /\ UNCHANGED <<unit, client, gui, platform, turn, quit_requested, selected_character,
                   last_speaker_name, opening_scene, player_input, waiting_for_player>>

\* somebody types a line on the terminal of a console run
TypeLine ==
    /\ ~gui /\ pc # "done"
    /\ Len(stdin) < MaxTyped
    /\ \E line \in TypedLines : stdin' = Append(stdin, line)
    /\ UNCHANGED <<unit, client, gui, platform, history, pc, turn, quit_requested,
                   selected_character, last_speaker_name, interested, speaker,
                   is_player_turn, opening_scene, player_input, waiting_for_player,
                   exit, round>>

\* the first poll of the round
Poll ==
    /\ pc = "poll"
    /\ \E outcomes \in [1..Len(Cast) -> WantsSmall] :
          /\ interested' = poll(client, history, outcomes)
          /\ round' = [round EXCEPT !.polls = 1, !.first_poll = interested',
                                    !.calls = @ \o PollCalls]
          /\ pc' = IF interested' = <<>> THEN "inject" ELSE "choose"
    /\ UNCHANGED <<unit, client, gui, platform, stdin, history, turn, quit_requested, selected_character,
                   last_speaker_name, speaker, is_player_turn, opening_scene,
                   player_input, waiting_for_player, exit>>

\* nobody is interested: the narrator is asked for a new situation
Inject ==
    /\ pc = "inject"
    /\ \E outcome \in SituationOutcomes :
          \E s \in {new_situation(client, history, outcome)} :
             /\ round' = [round EXCEPT
                            !.situation = IF s.exc = NoExc THEN s.ret ELSE @,
                            !.calls = @ \o NarratorCalls("situation", <<s.call>>)]
             /\ IF s.exc # NoExc
                THEN Leave("situation_error") /\ UNCHANGED history
                ELSE IF s.ret = <<>>
                     THEN Leave("no_situation") /\ UNCHANGED history
                     ELSE /\ history' = Append(history, situation_entry(s.ret))
                          /\ pc' = "repoll"
                          /\ exit' = exit
    /\ UNCHANGED <<unit, client, gui, platform, stdin, turn, quit_requested, selected_character,
                   last_speaker_name, interested, speaker, is_player_turn, opening_scene,
                   player_input, waiting_for_player>>

\* the poll after the situation
Repoll ==
    /\ pc = "repoll"
    /\ \E outcomes \in [1..Len(Cast) -> WantsSmall] :
          /\ interested' = poll(client, history, outcomes)
          /\ round' = [round EXCEPT !.polls = 2, !.repoll = interested',
                                    !.calls = @ \o PollCalls]
          /\ IF interested' = <<>> THEN Leave("silent") ELSE pc' = "choose" /\ exit' = exit
    /\ UNCHANGED <<unit, client, gui, platform, stdin, history, turn, quit_requested, selected_character,
                   last_speaker_name, speaker, is_player_turn, opening_scene,
                   player_input, waiting_for_player>>

\* speaker = self.narrator.choose_next_speaker(interested_characters, self.history)
Choose ==
    /\ pc = "choose"
    /\ \E outcomes \in [1..max_attempts -> ChooseSmall] :
          \E chosen \in {choose_next_speaker(client, interested, history, outcomes)} :
             /\ speaker' = chosen.ret
             /\ round' = [round EXCEPT
                            !.chosen = (chosen.ret # None),
                            !.calls = @ \o NarratorCalls("choose_next_speaker",
                                                         chosen.log)]
             /\ IF speaker' = None THEN Leave("no_speaker")
                ELSE pc' = "narrate" /\ exit' = exit
    /\ UNCHANGED <<unit, client, gui, platform, stdin, history, turn, quit_requested, selected_character,
                   last_speaker_name, interested, is_player_turn, opening_scene,
                   player_input, waiting_for_player>>

\* a speaker nobody chose is recorded
spoken_by_first(character) == JStr(Cast[1].name)

\* self.last_speaker_name = speaker.name
spoken_by(character) == JStr(character.name)

\* a round that does not count
FinishRound_uncounted(after, dialogue, behavior) ==
    /\ history' = after \o <<line_entry(speaker.name, dialogue, behavior), continue_entry>>
    /\ last_speaker_name' = spoken_by(speaker)
    /\ turn' = turn
    /\ pc' = "round_top"
    /\ exit' = exit

\* the round ends: the line and the acknowledgment are appended
FinishRound(after, dialogue, behavior) ==
    /\ history' = after \o <<line_entry(speaker.name, dialogue, behavior), continue_entry>>
    /\ last_speaker_name' = spoken_by(speaker)
    /\ turn' = turn + 1
    /\ pc' = "round_top"
    /\ exit' = exit

\* if turn > 0 and self.last_speaker_name: narrate_scene; a scene is shown and appended
Narrate ==
    /\ pc = "narrate"
    /\ IF turn > 0 /\ Truthy(last_speaker_name)
       THEN \E outcomes \in NarrateOutcomes :
               \E narrated \in {narrate_scene(client, history, last_speaker_name.s,
                                                outcomes)} :
               \E scene_desc \in {narrated.ret} :
                  /\ round' = [round EXCEPT
                                 !.narrated = Append(@, last_speaker_name.s),
                                 !.narration = narrated,
                                 !.scene = scene_desc,
                                 !.raised = IF narrated.exc # NoExc THEN narrated.exc
                                            ELSE IF Truthy(scene_desc) /\ gui
                                                       /\ ~Iterable(scene_desc)
                                                 THEN "TypeError" ELSE @,
                                 !.calls = @ \o NarratorCalls("narrate_scene",
                                                              narrated.calls)]
                  /\ IF narrated.exc # NoExc
                     THEN Leave("exception") /\ UNCHANGED history
                     ELSE IF ~Truthy(scene_desc)
                     THEN pc' = "player_check" /\ UNCHANGED <<history, exit>>
                     ELSE IF gui /\ ~Iterable(scene_desc)      \* for char in scene_desc
                          THEN Leave("exception") /\ UNCHANGED history
                          ELSE /\ history' = Append(history, scene_entry(scene_desc))
                               /\ pc' = "player_check"
                               /\ exit' = exit
       ELSE pc' = "player_check" /\ UNCHANGED <<history, exit, round>>
    /\ UNCHANGED <<unit, client, gui, platform, stdin, turn, quit_requested, selected_character,
                   last_speaker_name, interested, speaker, is_player_turn, opening_scene,
                   player_input, waiting_for_player>>

\* selected_character = self.gui.get_selected_character() if self.gui else None
PlayerCheck ==
    /\ pc = "player_check"
    /\ LET selected == IF gui THEN selected_character ELSE JNull
       IN /\ is_player_turn' = (Truthy(selected) /\ JStr(speaker.name) = selected)
          /\ pc' = IF is_player_turn' THEN "suggest" ELSE "respond"
    /\ UNCHANGED <<unit, client, gui, platform, stdin, history, turn, quit_requested, selected_character,
                   last_speaker_name, interested, speaker, opening_scene,
                   player_input, waiting_for_player, exit, round>>

\* a player turn: generate_player_suggestions; the first suggestion is shown and appended
Suggest ==
    /\ pc = "suggest"
    /\ \E outcome \in SuggestOutcomes :
          \E suggested \in {generate_player_suggestions(client, history, speaker.name,
                                                         outcome)} :
          \E suggestions \in {suggested.ret} :
             /\ round' = [round EXCEPT
                            !.suggested = Append(@, suggestions),
                            !.calls = @ \o NarratorCalls("generate_player_suggestions",
                                                         suggested.calls),
                            !.direct = IF Truthy(suggestions)
                                          /\ first_suggestion(suggestions).exc = NoExc
                                       THEN @ \cup Direct({"show_hint_link"})
                                       ELSE @]
             /\ IF ~Truthy(suggestions)
                THEN pc' = "respond" /\ UNCHANGED <<history, exit>>
                ELSE \E hint_text \in {first_suggestion(suggestions)} :
                        IF hint_text.exc # NoExc
                        THEN Leave("exception") /\ UNCHANGED history
                        ELSE /\ history' = Append(history,
                                                  hint_entry(speaker.name, hint_text.ret))
                             /\ pc' = "respond"
                             /\ exit' = exit
    /\ UNCHANGED <<unit, client, gui, platform, stdin, turn, quit_requested, selected_character,
                   last_speaker_name, interested, speaker, is_player_turn, opening_scene,
                   player_input, waiting_for_player>>

\* speaker.respond(self.history, ...): a speaker the window has selected waits for the
\* player; any other speaker asks the provider, and the round ends when it answers
Respond ==
    /\ pc = "respond"
    /\ IF gui /\ selected_character = JStr(speaker.name)
       THEN /\ waiting_for_player' = TRUE           \* enable_player_input
            /\ player_input' = JNull
            /\ pc' = "await_input"
            /\ round' = [round EXCEPT
                           !.responders = Append(@, speaker.name),
                           !.direct = @ \cup Direct({"update_status", "enable_player_input"}
                                                    \cup (IF quit_requested THEN {}
                                                          ELSE {"wait_for_player_input"}))]
            /\ UNCHANGED <<history, last_speaker_name, turn, exit>>
       ELSE /\ \E outcome \in RespondOutcomes :
                  \E r \in {respond_ai(client, history, outcome)} :
                     \* with a stream_callback: for char in dialogue
                     IF r.exc # NoExc \/ (gui /\ ~is_player_turn /\ ~Iterable(r.dialogue))
                     THEN /\ Leave("exception")
                          /\ round' = [round EXCEPT
                                         !.responders = Append(@, speaker.name),
                                         !.calls = Append(@, Call("respond", speaker.name)),
                                         !.raised = IF r.exc # NoExc THEN r.exc
                                                    ELSE "TypeError"]
                          /\ UNCHANGED <<history, last_speaker_name, turn>>
                     ELSE /\ FinishRound(r.call.messages,
                                         unpack(Pair(r.dialogue, r.behavior)).dialogue,
                                         unpack(Pair(r.dialogue, r.behavior)).behavior)
                          /\ round' = [round EXCEPT
                                         !.responders = Append(@, speaker.name),
                                         !.said = TRUE,
                                         !.dialogue = r.dialogue,
                                         !.behavior = r.behavior,
                                         !.returned = Pair(r.dialogue, r.behavior),
                                         !.calls = Append(@, Call("respond", speaker.name))]
            /\ UNCHANGED <<waiting_for_player, player_input>>
    /\ UNCHANGED <<unit, client, gui, platform, stdin, quit_requested, selected_character, interested,
                   speaker, is_player_turn, opening_scene>>

\* wait_for_player_input returns: None after a quit, else the text submitted
AwaitReturn ==
    /\ pc = "await_input"
    /\ ~waiting_for_player \/ quit_requested
    /\ \E result \in {respond_player(wait_for_player_input(quit_requested,
                                                            player_input))} :
       \E line \in {unpack(result)} :
          /\ FinishRound(history, line.dialogue, line.behavior)
          /\ round' = [round EXCEPT !.said = TRUE, !.dialogue = line.dialogue,
                                    !.behavior = line.behavior, !.returned = result]
    /\ UNCHANGED <<unit, client, gui, platform, stdin, quit_requested, selected_character, interested,
                   speaker, is_player_turn, opening_scene, player_input, waiting_for_player>>

\* ChatWindow._on_quit
OnQuit ==
    /\ gui /\ pc # "done" /\ ~quit_requested
    /\ quit_requested' = TRUE
    /\ UNCHANGED <<unit, client, gui, platform, stdin, history, pc, turn, selected_character,
                   last_speaker_name, interested, speaker, is_player_turn, opening_scene,
                   player_input, waiting_for_player, exit, round>>

\* ChatWindow._select_character(character_name): a character's button or the observer's
SelectCharacter ==
    /\ gui /\ pc # "done"
    /\ \E c \in {JNull} \cup {JStr(name) : name \in Playable} :
          /\ c # selected_character
          /\ selected_character' = c
    /\ UNCHANGED <<unit, client, gui, platform, stdin, history, pc, turn, quit_requested,
                   last_speaker_name, interested, speaker, is_player_turn, opening_scene,
                   player_input, waiting_for_player, exit, round>>

\* ChatWindow._on_dialogue_submit with a text that is not blank
OnDialogueSubmit ==
    /\ gui /\ waiting_for_player
    /\ \E text \in PlayerTexts :
          /\ player_input' = JStr(text)
          /\ waiting_for_player' = FALSE
    /\ UNCHANGED <<unit, client, gui, platform, stdin, history, pc, turn, quit_requested, selected_character,
                   last_speaker_name, interested, speaker, is_player_turn, opening_scene,
                   exit, round>>

Next ==
    \/ Start
    \/ RoundTop
    \/ Poll
    \/ Inject
    \/ Repoll
    \/ Choose
    \/ Narrate
    \/ PlayerCheck
    \/ Suggest
    \/ Respond
    \/ AwaitReturn
    \/ OnQuit
    \/ SelectCharacter
    \/ OnDialogueSubmit
    \/ TypeLine

Spec == Init /\ [][Next]_vars

\* the steps of the conversation thread
ConversationThread ==
    \/ Start
    \/ RoundTop
    \/ Poll
    \/ Inject
    \/ Repoll
    \/ Choose
    \/ Narrate
    \/ PlayerCheck
    \/ Suggest
    \/ Respond
    \/ AwaitReturn

\* the wait for the player's line ends: a line is submitted or Quit is pressed
InputReturns == pc = "await_input" /\ (OnDialogueSubmit \/ OnQuit)

\* the conversation thread keeps running, every call of it returns, and so does
\* every wait for the player
SpecFair == Spec /\ WF_vars(ConversationThread) /\ WF_vars(InputReturns)

-----------------------------------------------------------------------------
(* Direct calls of one function: Init draws the inputs, the action applies it *)

ConvIdle ==
    /\ client = "ClaudeClient"
    /\ gui = FALSE
    /\ platform = "linux"
    /\ stdin = <<>>
    /\ history = <<>>
    /\ pc = "not_started"
    /\ turn = 0
    /\ quit_requested = FALSE
    /\ selected_character = JNull
    /\ last_speaker_name = JNull
    /\ interested = <<>>
    /\ speaker = None
    /\ is_player_turn = FALSE
    /\ opening_scene = <<>>
    /\ player_input = JNull
    /\ waiting_for_player = FALSE
    /\ exit = "none"
    /\ round = NoRound

Called(op) == unit.op = op /\ unit.done

InitChoose ==
    /\ ConvIdle
    /\ unit \in [op : {"choose_next_speaker"}, client : Clients,
                 characters : SeqsUpTo({Character(Al), Character(Ali), Character(Bo)}, MaxCandidates),
                 history : {<<Entry("user", OpeningShort)>>},
                 outcomes : [1..max_attempts -> ChooseOutcomes],
                 done : {FALSE}, out : {None}]

CallChoose ==
    /\ unit.op = "choose_next_speaker" /\ ~unit.done
    /\ unit' = [unit EXCEPT !.done = TRUE,
                            !.out = choose_next_speaker(unit.client, unit.characters,
                                                        unit.history, unit.outcomes)]
    /\ UNCHANGED convVars

SpecChoose == InitChoose /\ [][CallChoose]_vars

InitWants ==
    /\ ConvIdle
    /\ unit \in [op : {"wants_to_respond"}, client : Clients, history : SampleHistories,
                 outcome : WantsOutcomes, done : {FALSE}, out : {None}]

CallWants ==
    /\ unit.op = "wants_to_respond" /\ ~unit.done
    /\ unit' = [unit EXCEPT !.done = TRUE,
                            !.out = wants_to_respond(unit.client, unit.history, unit.outcome)]
    /\ UNCHANGED convVars

SpecWants == InitWants /\ [][CallWants]_vars

InitTrim ==
    /\ ConvIdle
    /\ unit \in [op : {"trim_history_to_token_limit"},
                 history : SeqsUpTo(TrimEntries, MaxHist), done : {FALSE}, out : {None}]

CallTrim ==
    /\ unit.op = "trim_history_to_token_limit" /\ ~unit.done
    /\ unit' = [unit EXCEPT !.done = TRUE, !.out = trim_history_to_token_limit(unit.history)]
    /\ UNCHANGED convVars

SpecTrim == InitTrim /\ [][CallTrim]_vars

InitSend ==
    /\ ConvIdle
    /\ unit \in [op : {"send_message"}, call : CallSites, messages : SampleHistories,
                 outcome : SendOutcomes, done : {FALSE}, out : {None}]

CallSend ==
    /\ unit.op = "send_message" /\ ~unit.done
    /\ unit' = [unit EXCEPT !.done = TRUE,
                            !.out = ClaudeClient_send_message(unit.call.kwargs, unit.messages,
                                                              unit.call.prefill, unit.outcome)]
    /\ UNCHANGED convVars

SpecSend == InitSend /\ [][CallSend]_vars

InitNarrate ==
    /\ ConvIdle
    /\ unit \in [op : {"narrate_scene"}, client : Clients, history : SampleHistories,
                 last_speaker : {Al}, outcomes : DecisionOutcomes \X SceneOutcomes,
                 done : {FALSE}, out : {None}]

CallNarrate ==
    /\ unit.op = "narrate_scene" /\ ~unit.done
    /\ unit' = [unit EXCEPT !.done = TRUE,
                            !.out = narrate_scene(unit.client, unit.history,
                                                  unit.last_speaker, unit.outcomes)]
    /\ UNCHANGED convVars

SpecNarrate == InitNarrate /\ [][CallNarrate]_vars

InitSetup ==
    /\ ConvIdle
    /\ unit \in [op : {"generate_story_setup"}, client : Clients,
                 story_prompt : StoryPrompts, outcome : SetupOutcomes,
                 done : {FALSE}, out : {None}]

\* main: the call of generate_story_setup and the check that follows it
CallSetup ==
    /\ unit.op = "generate_story_setup" /\ ~unit.done
    /\ \E generated \in {generate_story_setup(unit.client, unit.story_prompt,
                                               unit.outcome)} :
          unit' = [unit EXCEPT !.done = TRUE,
                               !.out = [exc |-> generated.exc, ret |-> generated.ret,
                                        call |-> generated.call,
                                        main |-> main_story(generated)]]
    /\ UNCHANGED convVars

SpecSetup == InitSetup /\ [][CallSetup]_vars

InitSuggest ==
    /\ ConvIdle
    /\ unit \in [op : {"generate_player_suggestions"}, client : Clients,
                 history : SampleHistories, character_name : {Al},
                 outcome : SuggestRichOutcomes, done : {FALSE}, out : {None}]

CallSuggest ==
    /\ unit.op = "generate_player_suggestions" /\ ~unit.done
    /\ unit' = [unit EXCEPT !.done = TRUE,
                            !.out = generate_player_suggestions(unit.client, unit.history,
                                                                unit.character_name,
                                                                unit.outcome)]
    /\ UNCHANGED convVars

SpecSuggest == InitSuggest /\ [][CallSuggest]_vars

InitParse ==
    /\ ConvIdle
    /\ unit \in [op : {"parse_json_response"}, response : ParseTexts,
                 fallback_key : {<<>>, <<"k">>}, done : {FALSE}, out : {None}]

CallParse ==
    /\ unit.op = "parse_json_response" /\ ~unit.done
    /\ unit' = [unit EXCEPT !.done = TRUE,
                            !.out = parse_json_response(unit.response, unit.fallback_key)]
    /\ UNCHANGED convVars

SpecParse == InitParse /\ [][CallParse]_vars

InitRespond ==
    /\ ConvIdle
    /\ unit \in [op : {"respond"}, client : Clients, history : SampleHistories,
                 outcome : RespondRichOutcomes, done : {FALSE}, out : {None}]

\* respond on a character no window controls
CallRespond ==
    /\ unit.op = "respond" /\ ~unit.done
    /\ unit' = [unit EXCEPT !.done = TRUE,
                            !.out = respond_ai(unit.client, unit.history, unit.outcome)]
    /\ UNCHANGED convVars

SpecRespond == InitRespond /\ [][CallRespond]_vars

------------------------------------------------------------------------------
(* ElevenLabsTTS at work.  SpecTts: the lines Conversation.start presents    *)
(* (the opening scene, then situations, scene descriptions and dialogue      *)
(* lines) and the worker thread of the queue.  SpecCache: requests to speak  *)
(* put in the queue and previews of the review window, each on a thread of   *)
(* its own, beside the worker.  Every request and every line has a number;   *)
(* the fields shown, connects, played, finished, taken, used and evicted of  *)
(* unit record what the threads did with it.                                 *)

Threads == {"worker", "p1", "p2"}
PreviewThreads == {"p1", "p2"}

\* what one synthesis request to the provider does: the connection is refused, it
\* yields no audio, or it yields audio
SynthOutcomes == {"refused", "silent", "audio"}

NarratorTexts == {<<"a">>, <<"a", " ">>}
DialogueTexts == {<<"a">>, <<" ">>, <<>>}
\* character_voice_map.get(speaker.name): none, or a voice id
Voices == {<<>>, <<"w">>}
PreviewVoices == {<<"w">>}
\* the (voice id, text) pairs asked for directly
SpeakPairs == {<<<<"n">>, <<"a">> >>, <<<<"n">>, <<"a", " ">> >>, <<<<"n">>, <<"|", "a">> >>,
               <<<<"n", "|">>, <<"a">> >>, <<<<"n">>, <<"b">> >>}

\* where the conversation shows its text
Surface(g) == IF g THEN "gui" ELSE "console"

InitTts ==
    /\ ConvIdle
    /\ unit \in [op : {"tts"}, gui : BOOLEAN, tts : BOOLEAN, voice : Voices,
                 cache : {<<>>}, queue : {<<>>},
                 th : {[t \in Threads |-> [pc |-> IF t = "worker" THEN "get" ELSE "off",
                                           task |-> None]]},
                 asked : {<<>>}, shown : {{}}, connects : {{}}, played : {{}},
                 finished : {{}}, taken : {<<>>}, used : {<<>>}, evicted : {<<>>},
                 done : {<<>>}, raised : {{}},
                 conv : {[pc |-> "present", line |-> None]},
                 appended : {<<>>}]

\* the next request number
NextId == Len(unit.asked) + 1

\* the (voice id, text) pair of a request to speak
Asked(voice_id, text) == [voice_id |-> voice_id, text |-> text]

\* a line of the loop: its request number, the site of start that presents it, its text,
\* whether the site went on to wait_for_queue and whether an AI spoke it
Line(id, site, text, spoken, ai) ==
    [id |-> id, site |-> site, text |-> text, spoken |-> spoken, ai |-> ai]

\* the opening scene, a situation or a scene description: with a TTS client
\* speak_narrator with a display callback, otherwise the text is shown at once
PresentNarration(site, text) ==
    /\ unit.conv.pc = "present"
    /\ Len(unit.appended) < MaxLines
    /\ (site = "opening") = (unit.appended = <<>>)
    /\ site = "situation" => Strip(text) = text
    /\ IF unit.tts
       THEN unit' = [unit EXCEPT !.asked = Append(@, Asked(NARRATOR_VOICE_ID, text)),
                                 !.queue = speak_narrator(@, NextId, text, TRUE),
                                 !.conv = [pc |-> "wait",
                                           line |-> Line(NextId, site, text, TRUE, FALSE)]]
       ELSE unit' = [unit EXCEPT !.asked = Append(@, None),
                                 !.shown = @ \cup {<<NextId, Surface(unit.gui)>>},
                                 !.conv = [pc |-> "append",
                                           line |-> Line(NextId, site, text, FALSE, FALSE)]]
    /\ UNCHANGED convVars

\* what respond and the branch of start around it show of a line: the player's line
\* goes to the window by add_message when it is not empty, an AI line is streamed to
\* the window without TTS, and printed by respond when no stream callback is given
ShownByRespond(g, tts, player, dialogue) ==
    IF g /\ player THEN (IF dialogue # <<>> THEN {"gui"} ELSE {})
    ELSE IF g /\ ~tts THEN {"gui"}
    ELSE {"console"}

\* the voice of the speaker: the narrator's when the map has none
voice_of(voice) == IF voice = <<>> THEN NARRATOR_VOICE_ID ELSE voice

\* a dialogue line: respond, then with a TTS client and a line that is not empty
\* speak_character, with a display callback for an AI line in the window
PresentDialogue(dialogue, player) ==
    /\ unit.conv.pc = "present"
    /\ unit.appended # <<>>
    /\ Len(unit.appended) < MaxLines
    /\ player => unit.gui /\ Strip(dialogue) = dialogue
    /\ \E shown \in {unit.shown \cup {<<NextId, x>> :
                        x \in ShownByRespond(unit.gui, unit.tts, player, dialogue)}} :
          IF unit.tts /\ dialogue # <<>> /\ voice_of(unit.voice) # <<>>
          THEN unit' = [unit EXCEPT !.asked = Append(@, Asked(voice_of(unit.voice), dialogue)),
                                    !.shown = shown,
                                    !.queue = speak_character(@, NextId, voice_of(unit.voice),
                                                              dialogue, ~player /\ unit.gui),
                                    !.conv = [pc |-> "wait",
                                              line |-> Line(NextId, "dialogue", dialogue,
                                                            TRUE, ~player)]]
          ELSE unit' = [unit EXCEPT !.asked = Append(@, None),
                                    !.shown = shown,
                                    !.conv = [pc |-> "append",
                                              line |-> Line(NextId, "dialogue", dialogue,
                                                            FALSE, ~player)]]
    /\ UNCHANGED convVars

\* the tasks of the queue are all done: none waits and the worker holds none
Drained == unit.queue = <<>> /\ unit.th["worker"].pc = "get"

\* self.tts.wait_for_queue() inside the try of the site: an exception it raises is
\* caught and logged by the except of the site, and start goes on
Wait ==
    /\ unit.conv.pc = "wait"
    /\ wait_for_queue.exc = NoExc => Drained
    /\ unit' = [unit EXCEPT !.conv.pc = "append"]
    /\ UNCHANGED convVars

\* self.history.append(...) of the site
AppendLine ==
    /\ unit.conv.pc = "append"
    /\ unit' = [unit EXCEPT !.appended = Append(@, unit.conv.line),
                            !.conv = [pc |-> "present", line |-> None]]
    /\ UNCHANGED convVars

\* speak_character called with a voice id and a text
Speak(voice_id, text) ==
    /\ Len(unit.asked) < MaxRequests
    /\ unit' = [unit EXCEPT !.asked = Append(@, Asked(voice_id, text)),
                            !.queue = speak_character(@, NextId, voice_id, text, FALSE)]
    /\ UNCHANGED convVars

\* _on_preview in the review window: a thread of its own runs preview_voice, whatever
\* other preview runs
Preview(p, voice_id) ==
    /\ unit.th[p].pc = "off"
    /\ Len(unit.asked) < MaxRequests
    /\ unit' = [unit EXCEPT !.asked = Append(@, Asked(voice_id, PreviewText)),
                            !.th[p] = [pc |-> "check",
                                       task |-> Task(NextId, voice_id, PreviewText,
                                                     "preview", FALSE)]]
    /\ UNCHANGED convVars

\* _worker_loop: get a task, call its display callback, then _speak_blocking
WorkerGet ==
    /\ unit.th["worker"].pc = "get"
    /\ unit.queue # <<>>
    /\ \E got \in {queue_get(unit.queue)} :
          unit' = [unit EXCEPT !.queue = got.rest,
                               !.th["worker"] = [pc |-> "check", task |-> got.task],
                               !.taken = Append(@, got.task),
                               !.shown = IF got.task.display_callback
                                         THEN @ \cup {<<got.task.id, Surface(unit.gui)>>}
                                         ELSE @]
    /\ UNCHANGED convVars

\* where a thread goes on after an exception left the display callback or
\* _speak_blocking: the worker's except logs it and its finally marks the task done,
\* preview_voice logs it and returns
after_exception_exit(t) == "off"

after_exception(t) == "end"

\* _worker_loop when the display callback of the task it got raises: _speak_blocking
\* is skipped
CallbackRaises ==
    /\ unit.th["worker"].pc = "get"
    /\ unit.queue # <<>>
    /\ \E got \in {queue_get(unit.queue)} :
          /\ got.task.display_callback
          /\ unit' = [unit EXCEPT !.queue = got.rest,
                                  !.th["worker"] = [pc |-> after_exception("worker"),
                                                    task |-> got.task],
                                  !.taken = Append(@, got.task),
                                  !.raised = @ \cup {got.task.id}]
    /\ UNCHANGED convVars

\* the keys in the order of their last use, the one used now last
Use(used, key) == SelectSeq(used, LAMBDA k : k # key) \o <<key>>

\* _speak_blocking up to the end of the block that holds the cache lock: a hit moves
\* the entry to the end and plays its audio
SpeakCheck(t) ==
    /\ unit.th[t].pc = "check"
    /\ \E task \in {unit.th[t].task} :
       \E key \in {get_cache_key(task.voice_id, Strip(task.text))} :
          IF Strip(task.text) = <<>>
          THEN unit' = [unit EXCEPT !.th[t].pc = "end"]
          ELSE IF key \in CacheKeys(unit.cache)
          THEN unit' = [unit EXCEPT !.cache = move_to_end(@, key),
                                    !.used = Use(@, key),
                                    !.played = @ \cup {<<task.id,
                                                 unit.cache[CacheIndex(unit.cache, key)].audio>>},
                                    !.th[t].pc = "end"]
          ELSE unit' = [unit EXCEPT !.th[t].pc = "connect"]
    /\ UNCHANGED convVars

\* _speak_blocking from websocket.create_connection to the end of the receive loop
SpeakConnect(t, outcome) ==
    /\ unit.th[t].pc = "connect"
    /\ unit' = [unit EXCEPT !.connects = @ \cup {unit.th[t].task.id},
                            !.th[t].pc = IF outcome = "audio" THEN "store" ELSE "end"]
    /\ UNCHANGED convVars

\* the keys of used that the cache holds, the one used longest ago first
UsedOf(cache, used) == SelectSeq(used, LAMBDA k : k \in CacheKeys(cache))

\* the entries a store dropped, each with the key that had been used longest ago
\* among those the cache held when the store began
Evictions(cache, stored, key, used) ==
    LET gone == SelectSeq([i \in 1..Len(cache) |-> cache[i].key],
                          LAMBDA k : k \notin CacheKeys(stored))
    IN [i \in 1..Len(gone) |-> [key |-> gone[i], oldest |-> UsedOf(cache, used)[i]]]

\* _speak_blocking from the second block that holds the cache lock: store, evict, play
SpeakStore(t) ==
    /\ unit.th[t].pc = "store"
    /\ \E task \in {unit.th[t].task} :
       \E key \in {get_cache_key(task.voice_id, Strip(task.text))} :
       \E stored \in {cache_store(unit.cache, key, Asked(task.voice_id, task.text),
                                  CacheSize)} :
          unit' = [unit EXCEPT !.cache = stored,
                               !.used = Use(@, key),
                               !.evicted = @ \o Evictions(unit.cache, stored, key, unit.used),
                               !.played = @ \cup {<<task.id, Asked(task.voice_id, task.text)>>},
                               !.th[t].pc = "end"]
    /\ UNCHANGED convVars

\* _play_audio raises before its own try (the temporary file cannot be written): the
\* entry was moved or stored under the lock, nothing is played
PlayRaises(t) ==
    /\ unit.th[t].pc \in {"check", "store"}
    /\ \E task \in {unit.th[t].task} :
       \E key \in {get_cache_key(task.voice_id, Strip(task.text))} :
          \/ /\ unit.th[t].pc = "check"
             /\ Strip(task.text) # <<>> /\ key \in CacheKeys(unit.cache)
             /\ unit' = [unit EXCEPT !.cache = move_to_end(@, key),
                                     !.used = Use(@, key),
                                     !.raised = @ \cup {task.id},
                                     !.th[t].pc = after_exception(t)]
          \/ /\ unit.th[t].pc = "store"
             /\ \E stored \in {cache_store(unit.cache, key, Asked(task.voice_id, task.text),
                                           CacheSize)} :
                   unit' = [unit EXCEPT !.cache = stored,
                                        !.used = Use(@, key),
                                        !.evicted = @ \o Evictions(unit.cache, stored, key,
                                                                   unit.used),
                                        !.raised = @ \cup {task.id},
                                        !.th[t].pc = after_exception(t)]
    /\ UNCHANGED convVars

\* the end of _speak_blocking: the worker marks the task done and takes the next, a
\* preview thread ends
SpeakEnd(t) ==
    /\ unit.th[t].pc = "end"
    /\ unit' = [unit EXCEPT !.finished = @ \cup {unit.th[t].task.id},
                            !.done = IF t = "worker" THEN Append(@, unit.th[t].task.id)
                                     ELSE @,
                            !.th[t] = [pc |-> IF t = "worker" THEN "get" ELSE "off",
                                       task |-> None]]
    /\ UNCHANGED convVars

NextTts ==
    \/ \E site \in {"opening", "situation", "scene"}, text \in NarratorTexts :
          PresentNarration(site, text)
    \/ \E dialogue \in DialogueTexts, player \in BOOLEAN : PresentDialogue(dialogue, player)
    \/ Wait
    \/ AppendLine
    \/ WorkerGet
    \/ SpeakCheck("worker")
    \/ \E outcome \in SynthOutcomes : SpeakConnect("worker", outcome)
    \/ SpeakStore("worker")
    \/ SpeakEnd("worker")
    \/ CallbackRaises
    \/ PlayRaises("worker")

SpecTts == InitTts /\ [][NextTts]_vars

\* the steps of the worker thread
WorkerThread ==
    \/ WorkerGet
    \/ SpeakCheck("worker")
    \/ \E outcome \in SynthOutcomes : SpeakConnect("worker", outcome)
    \/ SpeakStore("worker")
    \/ SpeakEnd("worker")
    \/ CallbackRaises
    \/ PlayRaises("worker")

\* the worker thread keeps running and every request it makes returns or raises
SpecTtsFair == SpecTts /\ WF_vars(WorkerThread)

\* one ElevenLabsTTS object, no conversation
InitCache ==
    /\ ConvIdle
    /\ unit \in [op : {"cache"}, gui : {TRUE}, tts : {TRUE}, voice : {<<>>},
                 cache : {<<>>}, queue : {<<>>},
                 th : {[t \in Threads |-> [pc |-> IF t = "worker" THEN "get" ELSE "off",
                                           task |-> None]]},
                 asked : {<<>>}, shown : {{}}, connects : {{}}, played : {{}},
                 finished : {{}}, taken : {<<>>}, used : {<<>>}, evicted : {<<>>},
                 done : {<<>>}, raised : {{}},
                 conv : {[pc |-> "off", line |-> None]},
                 appended : {<<>>}]

NextCache ==
    \/ \E pair \in SpeakPairs : Speak(pair[1], pair[2])
    \/ \E p \in PreviewThreads, voice_id \in PreviewVoices : Preview(p, voice_id)
    \/ WorkerGet
    \/ \E t \in Threads : SpeakCheck(t)
    \/ \E t \in Threads, outcome \in SynthOutcomes : SpeakConnect(t, outcome)
    \/ \E t \in Threads : SpeakStore(t)
    \/ \E t \in Threads : SpeakEnd(t)
    \/ \E t \in Threads : PlayRaises(t)

SpecCache == InitCache /\ [][NextCache]_vars

-----------------------------------------------------------------------------
(* ElevenLabsTTS.find_or_create_voice called for one character after another, *)
(* as main does while it builds the cast (SpecVoice).  unit.library is the     *)
(* account's voice library, unit.tts the object, unit.calls what each call     *)
(* was given and what it returned.                                             *)

Deep == <<"d", "e", "e", "p">>
Soft == <<"s", "o", "f", "t">>

Voice(voice_id, name, labels) ==
    [voice_id |-> voice_id, name |-> name, description |-> <<>>, labels |-> labels]

VoiceDeep == Voice(<<"1">>, Deep, <<>>)
VoiceSoft == Voice(<<"2">>, Soft, <<>>)
VoiceHer == Voice(<<"3">>, <<"A", "v", "a">>, Female)
VoiceNarrator == Voice(NARRATOR_VOICE_ID, <<"N">>, Male)
VoiceFound == Voice(<<"x">>, <<"X">>, <<>>)

Libraries == {<<>>, <<VoiceDeep, VoiceSoft>>, <<VoiceNarrator, VoiceDeep, VoiceHer, VoiceSoft>>}

\* voice descriptions: a blank one, two long enough to design a voice from, a short one
Descriptions ==
    {<<" ">>,
     Deep \o <<",", " ", "gravelly-detective">>,
     Soft \o <<" ", "gentle-storyteller">>,
     <<"F", "e">> \o Male}

\* GET /v2/voices with page_size 1
SearchReplies ==
    {Raises, [raised |-> FALSE, voices |-> <<>>], [raised |-> FALSE, voices |-> <<VoiceFound>>],
     [raised |-> FALSE, voices |-> <<VoiceNarrator>>]}

\* GET /v1/voices
LibraryReplies(library) == {Raises, [raised |-> FALSE, voices |-> library]}

\* the two POSTs of text-to-voice: <<design reply, create reply>>
CreateReplies(new_id) ==
    {<<Raises, Raises>>,
     <<[raised |-> FALSE, previews |-> <<>>], Raises>>,
     <<[raised |-> FALSE, previews |-> <<JStr(<<"g">>)>>], Raises>>,
     <<[raised |-> FALSE, previews |-> <<JStr(<<"g">>)>>], [raised |-> FALSE, voice_id |-> JNull]>>,
     <<[raised |-> FALSE, previews |-> <<JStr(<<"g">>)>>],
       [raised |-> FALSE, voice_id |-> JStr(new_id)]>>}

InitVoice ==
    /\ ConvIdle
    /\ unit \in [op : {"voice"}, library : Libraries, tts : {NewTts}, calls : {<<>>}]

\* one call of find_or_create_voice; a voice that was created is in the library afterwards
FindOrCreate(voice_description, auto_create, search_reply, library_reply) ==
    /\ unit.op = "voice"
    /\ Len(unit.calls) < MaxVoiceCalls
    /\ \E found \in {find_voice_id(unit.tts, NARRATOR_VOICE_ID, voice_description,
                                   search_reply, library_reply)} :
       \E replies \in (IF ~Truthy(found.ret) /\ auto_create
                       THEN CreateReplies(<<"c", ToString(Len(unit.library))>>)
                       ELSE {<<Raises, Raises>>}) :
       \E r \in {find_or_create_voice(unit.tts, NARRATOR_VOICE_ID, Al, voice_description,
                                      auto_create,
                                      [search |-> search_reply, library |-> library_reply,
                                       design |-> replies[1], create |-> replies[2]])} :
           unit' = [unit EXCEPT
                       !.tts = r.tts,
                       !.library = IF r.by = "design_and_create_voice" /\ Truthy(r.ret)
                                   THEN Append(@, Voice(r.ret.s, Al, <<>>))
                                   ELSE @,
                       !.calls = Append(@, [voice_description |-> voice_description,
                                            auto_create |-> auto_create,
                                            search_reply |-> search_reply,
                                            index |-> unit.tts.fallback_index,
                                            library |-> Len(unit.library),
                                            ret |-> r.ret, by |-> r.by, via |-> r.via,
                                            posts |-> r.posts])]
    /\ UNCHANGED convVars

NextVoice ==
    \E voice_description \in Descriptions, auto_create \in BOOLEAN,
       search_reply \in SearchReplies, library_reply \in LibraryReplies(unit.library) :
        FindOrCreate(voice_description, auto_create, search_reply, library_reply)

SpecVoice == InitVoice /\ [][NextVoice]_vars

-----------------------------------------------------------------------------
(* The window's message_queue with a TTS client (SpecBubbles): the             *)
(* conversation thread puts the events of the player's lines, the worker       *)
(* thread those of the display callbacks.  Every line has a number;            *)
(* unit.message_queue holds the events put, each with the number of its line.  *)

Event(kind, id) == [kind |-> kind, id |-> id]

\* ChatWindow.add_message: three puts
add_message(id, text) ==
    <<Event("start_bubble", id), Event("append_text", id), Event("end_bubble", id)>>

\* start_streaming_message, stream_text for every character, end_streaming_message
stream_message(id, text) ==
    <<Event("start_bubble", id)>> \o [i \in 1..Len(text) |-> Event("append_text", id)]
        \o <<Event("end_bubble", id)>>

\* the events the display callback of a site puts when the worker calls it
display_events(site, id, text) ==
    IF site \in {"opening", "dialogue"} THEN add_message(id, text) ELSE stream_message(id, text)

BubbleSites == {"opening", "scene", "dialogue", "player"}

BubbleText(site) == IF site = "scene" THEN <<"a", "b">> ELSE <<"a">>

InitBubbles ==
    /\ ConvIdle
    /\ unit = [op |-> "bubbles", queue |-> <<>>, sites |-> <<>>, message_queue |-> <<>>,
               conv |-> [pc |-> "present", puts |-> <<>>],
               worker |-> [pc |-> "get", puts |-> <<>>, task |-> None]]

\* the conversation thread presents a line: a narration or an AI line is handed to the
\* TTS client with its display callback; for the player's line add_message is called
\* here, before the line is handed over without a callback
BubblePresent(site) ==
    /\ unit.op = "bubbles"
    /\ unit.conv.pc = "present"
    /\ Len(unit.sites) < MaxLines
    /\ (site = "opening") = (unit.sites = <<>>)
    /\ \E id \in {Len(unit.sites) + 1} :
          IF site = "player"
          THEN unit' = [unit EXCEPT !.sites = Append(@, site),
                                    !.conv = [pc |-> "put",
                                              puts |-> add_message(id, BubbleText(site))]]
          ELSE unit' = [unit EXCEPT
                          !.sites = Append(@, site),
                          !.queue = IF site = "dialogue"
                                    THEN speak_character(@, id, <<"w">>, BubbleText(site), TRUE)
                                    ELSE speak_narrator(@, id, BubbleText(site), TRUE),
                          !.conv = [pc |-> "wait", puts |-> <<>>]]
    /\ UNCHANGED convVars

\* one put of the conversation thread; after the last the player's line goes to the
\* TTS client
BubblePut ==
    /\ unit.op = "bubbles"
    /\ unit.conv.pc = "put"
    /\ unit' = [unit EXCEPT
                  !.message_queue = Append(@, Head(unit.conv.puts)),
                  !.conv = IF Len(unit.conv.puts) > 1
                           THEN [pc |-> "put", puts |-> Tail(unit.conv.puts)]
                           ELSE [pc |-> "wait", puts |-> <<>>],
                  !.queue = IF Len(unit.conv.puts) > 1 THEN @
                            ELSE speak_character(@, Len(unit.sites), <<"w">>,
                                                 BubbleText("player"), FALSE)]
    /\ UNCHANGED convVars

\* self.tts.wait_for_queue() and the append to the history
BubbleWait ==
    /\ unit.op = "bubbles"
    /\ unit.conv.pc = "wait"
    /\ wait_for_queue.exc = NoExc => (unit.queue = <<>> /\ unit.worker.pc = "get")
    /\ unit' = [unit EXCEPT !.conv.pc = "present"]
    /\ UNCHANGED convVars

\* the worker gets a task and enters its display callback
BubbleGet ==
    /\ unit.op = "bubbles"
    /\ unit.worker.pc = "get"
    /\ unit.queue # <<>>
    /\ \E got \in {queue_get(unit.queue)} :
          unit' = [unit EXCEPT
                      !.queue = got.rest,
                      !.worker = IF got.task.display_callback
                                 THEN [pc |-> "put", task |-> got.task,
                                       puts |-> display_events(unit.sites[got.task.id],
                                                               got.task.id, got.task.text)]
                                 ELSE [pc |-> "speak", task |-> got.task, puts |-> <<>>]]
    /\ UNCHANGED convVars

\* one put of the display callback
BubbleCallbackPut ==
    /\ unit.op = "bubbles"
    /\ unit.worker.pc = "put"
    /\ unit' = [unit EXCEPT
                  !.message_queue = Append(@, Head(unit.worker.puts)),
                  !.worker.puts = Tail(@),
                  !.worker.pc = IF Len(unit.worker.puts) > 1 THEN "put" ELSE "speak"]
    /\ UNCHANGED convVars

\* _speak_blocking and task_done
BubbleSpeak ==
    /\ unit.op = "bubbles"
    /\ unit.worker.pc = "speak"
    /\ unit' = [unit EXCEPT !.worker = [pc |-> "get", puts |-> <<>>, task |-> None]]
    /\ UNCHANGED convVars

NextBubbles ==
    \/ \E site \in BubbleSites : BubblePresent(site)
    \/ BubblePut
    \/ BubbleWait
    \/ BubbleGet
    \/ BubbleCallbackPut
    \/ BubbleSpeak

SpecBubbles == InitBubbles /\ [][NextBubbles]_vars

-----------------------------------------------------------------------------
(* Properties of Conversation.start (Spec) *)

\* the round at hand obtained its speaker's response and has just ended
RoundDone == pc = "round_top" /\ round.said

\* "{speaker}: {dialogue}", with " [behavior: {behavior}]" when a behaviour was returned
ExpectedLine ==
    speaker.name \o <<":", " ">> \o PyStr(round.dialogue)
        \o (IF Truthy(round.behavior)
            THEN <<" ", "[", "behavior", ":", " ">> \o PyStr(round.behavior) \o <<"]">>
            ELSE <<>>)

\* the indices of the entries the round at hand added
AddedInRound == IF round.no = 0 THEN {} ELSE (round.base + 1)..Len(history)

\* what every round that obtained its speaker's response has done: one assistant entry,
\* the speaker's line, then one acknowledgment, and no respond but the speaker's
LineThenAcknowledgment ==
    /\ Len(history) >= round.base + 2
    /\ history[Len(history) - 1] = [role |-> "assistant", content |-> ExpectedLine]
    /\ history[Len(history)] =
           [role |-> "user", content |-> <<"Continue the conversation.">>]
    /\ Cardinality({i \in AddedInRound : history[i].role = "assistant"}) = 1
    /\ Cardinality({i \in AddedInRound :
                       history[i].content = <<"Continue the conversation.">>}) = 1
    /\ round.responders = <<speaker.name>>

\* the round that has just ended was the first, and its speaker was not the player's
FirstRoundOfAI == turn = 1 /\ ~is_player_turn

RespondPending == round.responders # <<>> /\ ~round.said

SilenceBroken ==
    /\ round.polls = 2
    /\ round.first_poll = <<>>
    /\ round.situation # <<>>
    /\ round.repoll # <<>>

\* C10: after a silent first poll, a non-empty situation and a re-poll that finds
\* somebody, the loop does not end at the silence or at the choice: the situation is in
\* the history as the user entry "[Situation: ...]", and the round goes on to choose a
\* speaker, who is one of the characters interested in the re-poll
C10_SituationRevives ==
    SilenceBroken =>
        /\ exit \notin {"silent", "no_situation", "situation_error", "no_speaker"}
        /\ history[round.base + 1] =
               [role |-> "user",
                content |-> <<"[", "Situation", ":", " ">> \o round.situation \o <<"]">>]
        /\ \/ pc = "choose"
           \/ round.chosen /\ \E i \in 1..Len(round.repoll) : speaker = round.repoll[i]

\* only the second character answers the situation, and speaks
C10_Witness ==
    /\ SilenceBroken
    /\ round.repoll = <<Cast[2]>>
    /\ RoundDone
    /\ speaker = Cast[2]
    /\ history[round.base + 2].role = "assistant"

\* the number of times the round at hand made the call c
CountCalls(c) == Cardinality({k \in 1..Len(round.calls) : round.calls[k] = c})

\* the entry is an injected situation
IsSituation(e) ==
    /\ e.role = "user"
    /\ Len(e.content) >= 4
    /\ SubSeq(e.content, 1, 4) = <<"[", "Situation", ":", " ">>

\* the first poll of the round at hand found nobody, and the round is past what it does
\* about that
SilenceHandled ==
    /\ round.polls >= 1
    /\ round.first_poll = <<>>
    /\ pc \notin {"inject", "repoll"}

\* the calls of a round in which nobody answers either poll
SilentRoundCalls == PollCalls \o <<Call("situation", <<>>)>> \o PollCalls

\* C11: a round whose first poll finds nobody injects at most one situation entry and
\* polls every character exactly once more; when the second poll finds nobody either,
\* the loop ends in that round without another call or entry
C11_RepollOnce ==
    SilenceHandled =>
        /\ Cardinality({i \in AddedInRound : IsSituation(history[i])}) <= 1
        /\ \A i \in 1..Len(Cast) :
              CountCalls(Call("wants_to_respond", Cast[i].name)) = 2
        /\ (round.polls = 2 /\ round.repoll = <<>>) =>
              /\ pc = "done" /\ exit = "silent"
              /\ round.calls = SilentRoundCalls
              /\ Len(history) = round.base + 1

\* the quit signal is set: the Quit button was clicked, or the line waiting on the
\* terminal is Q
QuitSet ==
    IF gui THEN quit_requested
    ELSE stdin # <<>> /\ Upper(Strip(Head(stdin))) = <<"Q">>

\* the conversation thread is inside a round
MidRound ==
    pc \in {"poll", "inject", "repoll", "choose", "narrate", "player_check", "suggest",
            "respond", "await_input"}

\* C12: a round that begins with the quit signal set ends the loop at once, with no call
\* and no change of the history; the loop ends on quit nowhere but at the top of a round,
\* and a round in progress goes on with its calls while the signal is set
C12_QuitAtRoundTop ==
    [][/\ (pc = "round_top" /\ turn < MaxTurns /\ QuitSet /\ pc' # pc) =>
              /\ pc' = "done" /\ exit' = "quit"
              /\ history' = history
              /\ round'.calls = <<>>
       /\ (exit' = "quit" /\ exit # "quit") => pc = "round_top"
       /\ (MidRound /\ QuitSet /\ pc' # pc) =>
              /\ exit' # "quit"
              /\ Len(round'.calls) >= Len(round.calls)
              /\ pc \in {"poll", "inject", "repoll"} => Len(round'.calls) > Len(round.calls)
      ]_vars

\* C13: the loop, once running, ends because nobody is interested before and after a
\* situation, because max_turns rounds were run, or because quit was requested, and for
\* no other reason: a failed, malformed or empty reply does not end it
C13_LoopEndReasons == pc = "done" => exit \in {"silent", "max_turns", "quit"}

\* the provider failed while the speaker of the round at hand generated its response
RespondTransportError ==
    /\ round.responders # <<>>
    /\ round.calls[Len(round.calls)] = Call("respond", speaker.name)
    /\ round.raised = "APIError"

\* C14: an error of the provider during the AI speaker's response is caught within the
\* round: it does not leave Conversation.start and does not end the conversation
C14_RespondErrorCaught == RespondTransportError => pc # "done" /\ exit # "exception"

\* the entry is the scene description s
IsScene(e, s) ==
    e = [role |-> "user", content |-> <<"[", "Scene", ":", " ">> \o s \o <<"]">>]

\* narrate_scene was invoked in the round at hand and returned a non-empty string, and
\* the round is past showing it
SceneReturned ==
    /\ round.scene.t = "str"
    /\ round.scene.s # <<>>
    /\ pc # "narrate"

\* C15: narrate_scene is not invoked in the first round; in a later round it is invoked
\* at most once, after the speaker is chosen, only with a previous speaker recorded, and
\* with the name of the speaker of the last completed round; a non-empty result is in
\* the history as "[Scene: ...]" once, after the situation entry if there is one and
\* before the assistant entry of the round, and no scene entry is there without a result
C15_NarrationOrder ==
    /\ round.no = 1 => round.narrated = <<>>
    /\ round.narrated # <<>> =>
           /\ round.no > 1
           /\ round.chosen
           /\ round.prev # JNull
           /\ round.narrated = <<round.prev.s>>
    /\ SceneReturned =>
           \E i \in AddedInRound :
               /\ IsScene(history[i], round.scene.s)
               /\ i = round.base + 1 + (IF round.situation = <<>> THEN 0 ELSE 1)
               /\ \A j \in AddedInRound : history[j].role = "assistant" => j > i
    /\ \A i \in AddedInRound :
           (Len(history[i].content) >= 4 /\ history[i].content[2] = "Scene") =>
               Truthy(round.scene) /\ IsScene(history[i], PyStr(round.scene))

\* a second round whose scene describes what the other character did, then the line
C15_Witness ==
    /\ RoundDone
    /\ round.no = 2
    /\ SceneReturned
    /\ round.narrated = <<Cast[1].name>>
    /\ speaker = Cast[2]
    /\ IsScene(history[Len(history) - 2], round.scene.s)

\* an entry "[Scene: ...", whatever its scene
IsSceneEntry(e) ==
    /\ e.role = "user"
    /\ Len(e.content) >= 2
    /\ SubSeq(e.content, 1, 2) = <<"[", "Scene">>

\* narrate_scene ran in this round and a call of it raised, or the reply to its scene
\* call is no JSON
NarrationFailed ==
    /\ round.narration # None
    /\ \/ round.narration.calls[1].exc # NoExc
       \/ /\ Len(round.narration.calls) = 2
          /\ \/ round.narration.calls[2].exc # NoExc
             \/ ~JsonLoads(round.narration.calls[2].text).ok

\* C17: narrate_scene raises nothing; when its decision call or its scene call raises,
\* or the reply to the scene call is no JSON, it returns the empty text, no scene entry
\* is appended and the round goes on to the player check
C17_NarrationFailsSilent ==
    /\ round.narration # None => round.narration.exc = NoExc
    /\ NarrationFailed =>
          /\ round.narration.ret = JStr(<<>>)
          /\ \A i \in AddedInRound : ~IsSceneEntry(history[i])
          /\ pc # "narrate"
          /\ pc = "done" => round.calls[Len(round.calls)][1] # "narrate_scene"

\* the scene call raised after a decision of true, and the round is at the player check
C17_Witness ==
    /\ NarrationFailed
    /\ Len(round.narration.calls) = 2
    /\ round.narration.calls[2].exc # NoExc
    /\ round.narration.ret = JStr(<<>>)
    /\ pc = "player_check"

\* an entry "[Hint for ...", whatever its hint
IsHintEntry(e) ==
    /\ e.role = "user"
    /\ Len(e.content) >= 2
    /\ SubSeq(e.content, 1, 2) = <<"[", "Hint for">>

\* the entries of the round at hand that are hints
HintsInRound == {i \in AddedInRound : IsHintEntry(history[i])}

\* generate_player_suggestions was called in the round at hand, and what it returned
Suggested == round.suggested # <<>>
Suggestions == round.suggested[1]

\* the hint of a player turn: suggestions are asked for in a player turn only and once;
\* a list with something in it adds one entry "[Hint for {speaker}: {first}]" ahead of
\* the speaker's line, an empty list adds none
HintEntryOfRound ==
    /\ Suggested => is_player_turn /\ gui /\ Len(round.suggested) = 1
    /\ ~Suggested => HintsInRound = {}
    /\ Suggested /\ Suggestions.t = "list" /\ Suggestions.items # <<>> =>
          /\ Cardinality(HintsInRound) = 1
          /\ \A i \in HintsInRound :
                /\ history[i] = [role |-> "user",
                                 content |-> <<"[", "Hint for", " ">> \o speaker.name
                                                \o <<":", " ">>
                                                \o PyStr(Suggestions.items[1]) \o <<"]">>]
                /\ \A j \in AddedInRound : history[j].role = "assistant" => i < j
    /\ Suggested /\ Suggestions = JList(<<>>) => HintsInRound = {}

\* C20: hints are generated only in a round whose speaker is the character the player
\* controls; a list with something in it adds exactly one user entry
\* "[Hint for {speaker}: {first suggestion}]" before the speaker's line; an empty list
\* adds no hint entry and the round goes on to await the player's input, with no call
\* to the provider for the speaker's line
C20_HintOnPlayerTurn ==
    /\ HintEntryOfRound
    /\ Suggested /\ Suggestions = JList(<<>>) =>
          \A k \in 1..Len(round.calls) : round.calls[k][1] # "respond"

\* a player turn with an empty list of suggestions in which the provider was asked for
\* the speaker's line
C20_RaceWitness ==
    /\ Suggested /\ Suggestions = JList(<<>>)
    /\ \E k \in 1..Len(round.calls) : round.calls[k][1] = "respond"

\* respond found the speaker controlled by the player: it is waiting for the window,
\* or it has returned what the window gave it
PlayerBranch ==
    \/ pc = "await_input"
    \/ round.returned # None /\ ~round.returned.tuple

PlayerReturned == round.returned # None /\ ~round.returned.tuple

\* C21 as stated: for a character the player controls respond returns the pair
\* (text, null), or ("", null) after a cancellation
C21_PlayerRespondPair ==
    PlayerReturned =>
        /\ round.returned.tuple
        /\ round.returned.behavior = JNull

\* C21, amended: for a character the player controls respond calls no provider, returns
\* only once a text was submitted or a quit was requested, and returns a bare text, no
\* pair: the text submitted when no quit was requested, "" when one was; start takes
\* a bare text as the dialogue with no behaviour
C21_PlayerRespond ==
    /\ PlayerBranch => \A k \in 1..Len(round.calls) : round.calls[k][1] # "respond"
    /\ PlayerReturned =>
          /\ ~waiting_for_player \/ quit_requested
          /\ round.returned.value.t = "str"
          /\ round.returned.value = JStr(<<>>) => quit_requested
          /\ round.returned.value # JStr(<<>>) =>
                ~waiting_for_player /\ round.returned.value = player_input
          /\ ~quit_requested => round.returned.value = player_input
          /\ round.dialogue = round.returned.value
          /\ round.behavior = JNull

\* a quit while respond waited for the player: "" is returned
C21_Witness ==
    /\ PlayerReturned
    /\ quit_requested
    /\ waiting_for_player
    /\ round.returned = Bare(JStr(<<>>))

\* a text submitted: it is returned
C21_WitnessText ==
    /\ PlayerReturned
    /\ ~quit_requested
    /\ round.returned = Bare(JStr(<<"Y", "o">>))

\* the entries of after that follow the first Len(before) ones
Appended(before, after) == SubSeq(after, Len(before) + 1, Len(after))

\* after is before with entries put at its end
IsAppend(before, after) ==
    /\ Len(after) > Len(before)
    /\ SubSeq(after, 1, Len(before)) = before

\* after is before with entries taken from its front
IsFrontRemoval(before, after) ==
    \E k \in 1..Len(before) : after = SubSeq(before, k + 1, Len(before))

\* the assistant message a call with a prefill adds to what it sends
IsPrefillEntry(e) == e.role = "assistant" /\ e.content \in {DialoguePrefill, TitlePrefill}

\* a step of the conversation thread: it moves the loop and touches no field the
\* GUI thread writes
ConversationStep ==
    /\ pc' # pc
    /\ quit_requested' = quit_requested
    /\ selected_character' = selected_character
    /\ player_input' = player_input

HistoryStep ==
    history' # history =>
        /\ ConversationStep
        /\ \/ IsFrontRemoval(history, history')
           \/ /\ IsAppend(history, history')
              /\ \A i \in 1..Len(Appended(history, history')) :
                     ~IsPrefillEntry(Appended(history, history')[i])

\* C25: every change to the conversation history is an append at its end or a removal
\* at its front made by a step of the conversation thread; the calls into Character,
\* Narrator and the LLM client, a call with a prefill included, leave the list as it
\* was, so no prefill message is ever among the appended entries and the entries kept
\* by a step keep their order.
C25_HistoryAppendOrTrim == [][HistoryStep]_vars

\* a run in which the front of the history was trimmed away and an AI line, obtained by
\* a call with a prefill, was appended with its continuation prompt
C25_Witness ==
    /\ pc = "round_top"
    /\ round.no > 0
    /\ round.said
    /\ round.returned # None /\ round.returned.tuple
    /\ \E i \in 1..Len(round.calls) : round.calls[i] = Call("respond", speaker.name)
    /\ Len(history) >= 2
    /\ history[Len(history)] = continue_entry
    /\ history[Len(history) - 1].role = "assistant"
    /\ history[1] # Entry("user", opening_scene)

\* C31: the conversation thread changes the window only by putting events in the
\* message queue: in no round does it read or write a widget or run the Tk event loop
\* itself.
C31_ConversationOffWidgets == round.direct = {}

\* a player turn in which the conversation thread drew the hint link, enabled the entry
\* and ran root.update() while it waited
C31_DirectWidgetUse ==
    /\ pc = "await_input"
    /\ round.direct = {"show_hint_link", "enable_player_input", "wait_for_player_input"}

\* the handlers of the window call neither the provider nor the TTS client
HandlersMakeNoCall == (pc' = pc) => (round'.calls = round.calls)

C31_HandlersMakeNoCall == [][HandlersMakeNoCall]_vars

Assistants(h) == {i \in 1..Len(h) : h[i].role = "assistant"}

\* start has returned or raised
Terminated == pc = "done"

RoundsBounded ==
    /\ round.no <= MaxTurns /\ turn <= MaxTurns
    /\ Cardinality(Assistants(history)) <= turn

\* C34: when every call and every wait for the player returns, start(max_turns) ends;
\* it runs at most max_turns rounds and the history never holds more than max_turns
\* assistant entries.
C34_StartTerminates == <>Terminated /\ []RoundsBounded

\* start ended by exhausting range(max_turns), with max_turns assistant entries
C34_Witness ==
    /\ Terminated /\ exit = "max_turns" /\ turn = MaxTurns
    /\ Cardinality(Assistants(history)) = MaxTurns

EndsWithUser(h) == h # <<>> /\ h[Len(h)].role = "user"

\* a step of a round in which the loop called the provider, with self.history as it
\* is before the step
CallsInLoop == round'.no = round.no /\ Len(round'.calls) > Len(round.calls)

CallWithUserLast == CallsInLoop => EndsWithUser(history)

\* C36: every call of the provider made inside the loop is given a history that is not
\* empty and ends with an entry of role "user", in every round and after trimming.
C36_HistoryEndsWithUser == [][CallWithUserLast]_vars

\* the second round has called the provider with a history whose opening scene was
\* trimmed away
C36_Witness ==
    /\ round.no = 2 /\ Len(round.calls) > 0
    /\ history # <<>> /\ history[1].role = "assistant"

\* the line of the round was typed by the player: respond returned from its player branch
FromHuman == round.said /\ ~round.returned.tuple

\* C37: in a round that ran to its end, the speaker's line is the player's input exactly
\* when the round was handled as a player turn, whatever the window's selection did
\* meanwhile.
C37_SpeakerConsistent == round.said => (FromHuman <=> is_player_turn)

\* a round handled as an AI turn (no suggestions asked) whose line the player typed
C37_HumanLineInAiRound ==
    round.said /\ FromHuman /\ ~is_player_turn /\ round.suggested = <<>>

\* a round handled as a player turn whose line the provider wrote
C37_AiLineInPlayerRound ==
    round.said /\ ~FromHuman /\ is_player_turn /\ round.suggested # <<>>

\* the wait for the player ends with quit requested: the round is completed with an
\* empty line and the acknowledgment, and no call is made
QuitEndsWait ==
    (pc = "await_input" /\ quit_requested /\ pc' # pc) =>
        /\ history' = history \o <<Entry("assistant", speaker.name \o <<":", " ">>),
                                   continue_entry>>
        /\ round'.calls = round.calls
        /\ pc' = "round_top"

\* the top of the loop after a quit in a window: the loop is left, nothing is called
QuitEndsLoop ==
    (pc = "round_top" /\ gui /\ quit_requested /\ pc' # pc) =>
        /\ pc' = "done" /\ exit' \in {"quit", "max_turns"}
        /\ history' = history

\* C39: a quit requested while the loop waits for the player's line ends the wait; the
\* round appends the assistant entry "{speaker}: " and "Continue the conversation."
\* with no call of the provider, and the loop ends at the top of the next round.
C39_QuitWhileWaiting == [][QuitEndsWait /\ QuitEndsLoop]_vars

\* quit was pressed during the wait, after a line had been typed, and the round has
\* ended with the empty line
C39_Witness ==
    /\ pc = "round_top" /\ quit_requested /\ round.said /\ FromHuman
    /\ player_input # JNull
    /\ round.dialogue = JStr(<<>>)
    /\ history[Len(history) - 1] = Entry("assistant", speaker.name \o <<":", " ">>)

-----------------------------------------------------------------------------
(* Properties of choose_next_speaker (SpecChoose) *)

ChoseAmong(n) == Called("choose_next_speaker") /\ Len(unit.characters) >= n

\* the stripped next_speaker string a send_message call returned; <<>> when the call
\* raised or its text holds no such string
ChoiceIn(call) ==
    IF call.exc # NoExc THEN <<>>
    ELSE LET p == JsonLoads(call.text)
         IN IF ~p.ok \/ p.val.t # "dict" THEN <<>>
            ELSE LET v == DictGet(p.val, <<"next_speaker">>)
                 IN IF v.t = "str" THEN Strip(v.s) ELSE <<>>

ExactMatches(c) ==
    {i \in 1..Len(unit.characters) : Lower(unit.characters[i].name) = Lower(c)}

SubstringMatches(c) ==
    {i \in 1..Len(unit.characters) :
        \/ Contains(Lower(unit.characters[i].name), Lower(c))
        \/ Contains(Lower(c), Lower(unit.characters[i].name))}

\* attempt k ended without a speaker: its call raised, or its text was not JSON, held no
\* non-empty next_speaker, or named nobody on the list
AttemptFailed(k) ==
    LET c == ChoiceIn(unit.out.log[k].call)
    IN c = <<>> \/ (ExactMatches(c) = {} /\ SubstringMatches(c) = {})

\* C1: for a non-empty candidate list, whatever the LLM does on either attempt,
\* choose_next_speaker returns a member of the list, never None
C1_ReturnsCandidate ==
    ChoseAmong(1) =>
        \E i \in 1..Len(unit.characters) : unit.out.ret = unit.characters[i]

\* two candidates or more, malformed text on the first attempt, an error raised by the
\* provider on the second
C1_Witness ==
    /\ ChoseAmong(2)
    /\ Len(unit.out.log) = 2
    /\ unit.out.log[1].exc = "JSONDecodeError"
    /\ unit.out.log[2].exc = "APIError"
    /\ unit.out.ret = unit.characters[1]

\* C3: with ClaudeClient, choose_next_speaker on two candidates reaches the provider
\* without an unexpected-keyword error, and returns the candidate the provider names
C3_OwnClientReachesProvider ==
    (ChoseAmong(2) /\ Len(unit.characters) = 2 /\ unit.client = "ClaudeClient") =>
        /\ \A k \in 1..Len(unit.out.log) : unit.out.log[k].call.exc # "TypeError"
        /\ \A i \in 1..2 :
              unit.outcomes[1] = Returns(Obj("next_speaker", Str(unit.characters[i].name)))
                  => unit.out.ret = unit.characters[i]

\* the first reply is valid JSON whose next_speaker is the name of a candidate
FirstReplyNamesCandidate ==
    /\ unit.out.log # <<>>
    /\ \E i \in 1..Len(unit.characters) :
          ChoiceIn(unit.out.log[1].call) = unit.characters[i].name

\* C4: no candidate gives None and one candidate gives that candidate, both without a
\* call; two or more candidates and a first reply naming a candidate give one call
C4_CallCounts ==
    Called("choose_next_speaker") =>
        /\ Len(unit.characters) = 0 => unit.out.ret = None /\ unit.out.log = <<>>
        /\ Len(unit.characters) = 1 =>
              unit.out.ret = unit.characters[1] /\ unit.out.log = <<>>
        /\ (Len(unit.characters) >= 2 /\ FirstReplyNamesCandidate) => Len(unit.out.log) = 1

C4_Witness ==
    /\ ChoseAmong(2)
    /\ FirstReplyNamesCandidate
    /\ Len(unit.out.log) = 1
    /\ unit.out.log[1].call.requests = 1

\* C5: an attempt that parsed a non-empty choice returns the first candidate whose name
\* equals it without regard to case; failing that the first candidate whose name
\* contains it or is contained in it; and only with no match of either kind does the
\* call go on towards the fallback
C5_MatchingPolicy ==
    ChoseAmong(2) =>
        \A k \in 1..Len(unit.out.log) :
            LET c == ChoiceIn(unit.out.log[k].call)
                returnedAt(i) == k = Len(unit.out.log) /\ unit.out.log[k].done
                                    /\ unit.out.ret = unit.characters[i]
            IN c # <<>> =>
                  /\ ExactMatches(c) # {} => returnedAt(Min(ExactMatches(c)))
                  /\ (ExactMatches(c) = {} /\ SubstringMatches(c) # {})
                        => returnedAt(Min(SubstringMatches(c)))
                  /\ (ExactMatches(c) = {} /\ SubstringMatches(c) = {})
                        => ~unit.out.log[k].done

\* the second candidate equals the choice, the first only contains it
C5_Witness ==
    /\ ChoseAmong(2)
    /\ LET c == ChoiceIn(unit.out.log[1].call)
       IN /\ c # <<>>
          /\ 1 \in SubstringMatches(c)
          /\ ExactMatches(c) = {2}
    /\ unit.out.ret = unit.characters[2]
    /\ unit.characters[1] # unit.characters[2]

\* C6: at most 2 calls; a second call only after a failed first attempt; after two
\* failed attempts the first candidate
C6_BoundedRetry ==
    ChoseAmong(2) =>
        /\ Len(unit.out.log) <= 2
        /\ Len(unit.out.log) = 2 => AttemptFailed(1)
        /\ (Len(unit.out.log) = 2 /\ AttemptFailed(1) /\ AttemptFailed(2))
              => unit.out.ret = unit.characters[1]

\* a first reply that names nobody on the list, a second that is not JSON
C6_Witness ==
    /\ ChoseAmong(2)
    /\ Len(unit.out.log) = 2
    /\ ChoiceIn(unit.out.log[1].call) # <<>>
    /\ AttemptFailed(1)
    /\ unit.out.log[2].exc = "JSONDecodeError"
    /\ unit.out.ret = unit.characters[1]
    /\ unit.characters[1] # unit.characters[2]

-----------------------------------------------------------------------------
(* Properties of ClaudeClient.send_message (SpecSend) *)

\* C2: a send_message call that passes a schema is accepted, issues one provider
\* request and returns its text; it fails only when the provider request fails
C2_SchemaCallAccepted ==
    (Called("send_message") /\ "output_format" \in unit.call.kwargs) =>
        /\ unit.out.requests = 1
        /\ ~unit.outcome.raised => unit.out.exc = NoExc /\ unit.out.text = unit.outcome.text
        /\ unit.out.exc # NoExc => unit.outcome.raised

\* C32: every call of send_message issues exactly one provider request, and a request
\* that fails makes the call raise: no second request, no text in place of the error.
C32_OneRequestNoFallback ==
    Called("send_message") =>
        /\ unit.out.requests = 1
        /\ unit.outcome.raised => unit.out.exc # NoExc

\* the same for the calls whose keyword arguments the signature accepts, with the text
\* of a request that succeeds returned behind the prefill
C32_AcceptedCallOneRequest ==
    (Called("send_message") /\ unit.call.kwargs \subseteq SendMessageParams) =>
        /\ unit.out.requests = 1
        /\ unit.outcome.raised => unit.out.exc = "APIError"
        /\ ~unit.outcome.raised =>
              unit.out.exc = NoExc /\ unit.out.text = unit.call.prefill \o unit.outcome.text

\* a call with a prefill whose request failed
C32_FailedPrefillCall ==
    /\ Called("send_message")
    /\ unit.call.prefill # <<>>
    /\ unit.outcome.raised
    /\ unit.out.exc = "APIError" /\ unit.out.requests = 1

-----------------------------------------------------------------------------
(* Properties of Character.wants_to_respond (SpecWants) *)

\* the record the reply of the call parses to: the whole reply, or the first line of a
\* reply of several lines; None when neither is JSON
ReplyRecord(text) ==
    LET whole == JsonLoads(Strip(text))
        line == first_line(Strip(text))
    IN IF whole.ok THEN whole.val
       ELSE IF line # Strip(text) /\ JsonLoads(line).ok THEN JsonLoads(line).val
       ELSE None

\* the wants_to_respond field of the reply; None when there is none
WantsField ==
    LET r == ReplyRecord(unit.out.call.text)
    IN IF unit.out.call.exc # NoExc \/ r = None THEN None
       ELSE IF r.t # "dict" THEN None
       ELSE IF \E i \in 1..Len(r.pairs) : r.pairs[i][1] = <<"wants_to_respond">>
            THEN DictGet(r, <<"wants_to_respond">>)
       ELSE None

\* C7: wants_to_respond never raises; it returns TRUE only for a reply whose
\* wants_to_respond field is the boolean true, and FALSE when the call raised, the reply
\* did not parse, the field is missing or the field is no boolean
C7_WantsFailsSilent ==
    Called("wants_to_respond") =>
        /\ unit.out.exc = NoExc
        /\ unit.out.ret \in BOOLEAN
        /\ unit.out.ret => WantsField = JBool(TRUE)
        /\ (WantsField = None \/ WantsField.t # "bool") => ~unit.out.ret

\* a provider that answers with valid JSON whose field is a string
C7_Witness ==
    /\ Called("wants_to_respond")
    /\ unit.out.call.exc = NoExc
    /\ WantsField # None
    /\ WantsField.t = "str"
    /\ unit.out.ret = FALSE
    /\ unit.out.exc = NoExc

-----------------------------------------------------------------------------
(* Properties of Narrator.narrate_scene (SpecNarrate) *)

\* the decision call returned a record whose needs_narration field is the boolean true
DecisionTrue ==
    LET decision == unit.out.calls[1]
        r == ReplyRecord(decision.text)
    IN /\ decision.exc = NoExc
       /\ r # None
       /\ r.t = "dict"
       /\ \E i \in 1..Len(r.pairs) :
              r.pairs[i][1] = <<"needs_narration">> /\ r.pairs[i][2] = JBool(TRUE)

\* C16: narrate_scene makes the decision call first; it makes the scene call only when
\* the decision call returned a record whose needs_narration field is the boolean true,
\* and after any other decision (false, no boolean, no such field, no JSON, an
\* exception) it returns the empty text with one call made
C16_TwoPhase ==
    Called("narrate_scene") =>
        /\ Len(unit.out.calls) \in {1, 2}
        /\ Len(unit.out.calls) = 2 <=> DecisionTrue
        /\ ~DecisionTrue => unit.out.exc = NoExc /\ unit.out.ret = JStr(<<>>)

\* a decision whose field is the text "true": one call, no scene
C16_Witness ==
    /\ Called("narrate_scene")
    /\ unit.out.calls[1].exc = NoExc
    /\ ReplyRecord(unit.out.calls[1].text) # None
    /\ ReplyRecord(unit.out.calls[1].text).t = "dict"
    /\ DictGet(ReplyRecord(unit.out.calls[1].text), <<"needs_narration">>).t = "str"
    /\ Len(unit.out.calls) = 1
    /\ unit.out.ret = JStr(<<>>)

\* a decision of true: the scene call follows and its scene is returned
C16_WitnessScene ==
    /\ Called("narrate_scene")
    /\ DecisionTrue
    /\ Len(unit.out.calls) = 2
    /\ unit.out.ret = JStr(<<"D", "u", "s", "k">>)

-----------------------------------------------------------------------------
(* Properties of Narrator.generate_story_setup (SpecSetup) *)

\* the record the reply is, None when the call raised or the reply is no JSON record
SetupRecord ==
    LET r == JsonLoads(unit.out.call.text)
    IN IF unit.out.call.exc # NoExc \/ ~r.ok THEN None
       ELSE IF r.val.t # "dict" THEN None
       ELSE r.val

\* a part of the reply is present and non-empty
HasPart(key) ==
    /\ SetupRecord # None
    /\ Truthy(DictGet(SetupRecord, <<key>>))

\* the title of the reply is a text with something other than blanks in it
HasTitle ==
    /\ HasPart("title")
    /\ DictGet(SetupRecord, <<"title">>).t = "str"
    /\ Strip(DictGet(SetupRecord, <<"title">>).s) # <<>>

-----------------------------------------------------------------------------
(* Properties of Narrator.generate_player_suggestions (SpecSuggest) *)

\* C19: generate_player_suggestions returns the empty list or a list of three to five
\* texts (it has no way to raise in the model: every exception of its body is caught)
C19_SuggestionsShape ==
    Called("generate_player_suggestions") =>
        \/ unit.out.ret = JList(<<>>)
        \/ /\ unit.out.ret.t = "list"
           /\ Len(unit.out.ret.items) \in 3..5
           /\ \A i \in 1..Len(unit.out.ret.items) : unit.out.ret.items[i].t = "str"

\* what does hold: the value returned is the empty list or the suggestions field of
\* the reply as it came, a list, a text or a record of any size
C19_SuggestionsAsParsed ==
    Called("generate_player_suggestions") =>
        \/ unit.out.ret = JList(<<>>)
        \/ /\ unit.out.calls[1].exc = NoExc
           /\ JsonLoads(unit.out.calls[1].text).ok
           /\ JsonLoads(unit.out.calls[1].text).val.t = "dict"
           /\ unit.out.ret = DictGet(JsonLoads(unit.out.calls[1].text).val,
                                     <<"suggestions">>)
           /\ Sized(unit.out.ret)

-----------------------------------------------------------------------------
(* Properties of parse_json_response (SpecParse) *)

\* the lines of a text, as str.splitlines counts them: a break at the end opens no line
LineCount(text) ==
    IF text = <<>> THEN 0
    ELSE 1 + Cardinality({i \in 1..(Len(text) - 1) :
                            /\ text[i] \in LineBreaks
                            /\ ~(text[i] = "\r" /\ text[i + 1] = NL)})

\* the text before the first line break
FirstLineOf(text) ==
    IF \E i \in 1..Len(text) : text[i] \in LineBreaks
    THEN SubSeq(text, 1, Min({i \in 1..Len(text) : text[i] \in LineBreaks}) - 1)
    ELSE text

\* the three tiers: the whole text as JSON; else, for a text of several lines, its first
\* line as JSON; else the record of one key holding the text
ThreeTiers(text, key) ==
    IF JsonLoads(text).ok THEN JsonLoads(text).val
    ELSE IF LineCount(text) > 1 /\ JsonLoads(FirstLineOf(text)).ok
         THEN JsonLoads(FirstLineOf(text)).val
    ELSE JDict(<< <<IF key = <<>> THEN <<"text">> ELSE key, JStr(text)>> >>)

C24_AlwaysRecord ==
    Called("parse_json_response") => unit.out.t = "dict"

\* what holds: the result is a record unless the stripped text, or its first line, is
\* JSON of another kind, which is returned as json.loads built it
C24_RecordUnlessBareJson ==
    Called("parse_json_response") =>
        \/ unit.out.t = "dict"
        \/ JsonLoads(unit.response).ok /\ unit.out = JsonLoads(unit.response).val
        \/ /\ JsonLoads(FirstLineOf(Strip(unit.response))).ok
           /\ unit.out = JsonLoads(FirstLineOf(Strip(unit.response))).val

-----------------------------------------------------------------------------
(* Properties of Character.respond (SpecRespond) *)

\* the provider answered, and the response (prefill and reply) is JSON or is not
Replied == Called("respond") /\ unit.out.call.exc = NoExc
ResponseIsJson == JsonLoads(unit.out.call.text).ok

\* C22: on an answer of the provider respond returns a line: the dialogue field of a
\* response that is JSON, and for a response that is no JSON a dialogue that is not
\* empty whenever the provider's reply is not empty
C22_NeverDropsTurn ==
    Replied =>
        /\ unit.out.exc = NoExc
        /\ ResponseIsJson =>
              unit.out.dialogue = DictGet(JsonLoads(unit.out.call.text).val, <<"dialogue">>)
        /\ ~ResponseIsJson /\ unit.outcome.text # <<>> =>
              unit.out.dialogue # JStr(<<>>)

\* what holds of a response that is no JSON: the dialogue is the text between the quote
\* after "dialogue": and the next quote, or to the end when there is no next quote
C22_RecoveredText ==
    Replied /\ ~ResponseIsJson =>
        /\ unit.out.exc = NoExc
        /\ unit.out.behavior = JNull
        /\ LET reply == unit.outcome.text
               quotes == {i \in 1..Len(reply) : reply[i] = QUOTE}
           IN unit.out.dialogue =
                 JStr(IF quotes = {} THEN Strip(reply)
                      ELSE SubSeq(LStrip(SubSeq(reply, 1, Min(quotes))), 1,
                                  Len(LStrip(SubSeq(reply, 1, Min(quotes)))) - 1))

------------------------------------------------------------------------------
(* Properties of the audio cache of ElevenLabsTTS (SpecCache) *)

\* a request that speak_character and _speak_blocking do not drop
Speakable(id) == unit.asked[id].voice_id # <<>> /\ Strip(unit.asked[id].text) # <<>>

\* the requests made for the same (voice id, text) pair as request id
SamePair(id) == {j \in 1..Len(unit.asked) : unit.asked[j] = unit.asked[id]}

\* C26: of two requests to speak the identical (voice id, text) pair exactly one opens
\* a connection to the provider; the other is served from the cache.
C26_OneSynthesis ==
    \A i \in 1..Len(unit.asked) :
        (/\ Speakable(i)
         /\ Cardinality(SamePair(i)) = 2
         /\ SamePair(i) \subseteq unit.finished)
        => Cardinality(SamePair(i) \cap unit.connects) = 1

\* both requests went through the queue one after the other, and the first one failed
C26_FailedFirst ==
    \E i, j \in 1..Len(unit.asked) :
        /\ i < j /\ SamePair(i) = {i, j} /\ Speakable(i)
        /\ {i, j} \subseteq unit.finished
        /\ Len(unit.taken) = 2 /\ unit.taken[1].id = i /\ unit.taken[2].id = j
        /\ {i, j} \subseteq unit.connects

\* two previews of the same voice, each on its thread, both missed the cache
C26_PreviewRace ==
    /\ Len(unit.asked) = 2
    /\ unit.asked[1] = Asked(<<"w">>, PreviewText)
    /\ SamePair(1) = {1, 2}
    /\ unit.finished = {1, 2}
    /\ unit.connects = {1, 2}
    /\ Len(unit.cache) = 1

\* the audio a request played was synthesised for its own voice id and text
PlaysOwnAudio == \A p \in unit.played : p[2] = unit.asked[p[1]]

\* the audio a request played was synthesised for its voice id and for a text that is
\* its own up to surrounding whitespace
PlaysStrippedAudio ==
    \A p \in unit.played : /\ p[2].voice_id = unit.asked[p[1]].voice_id
                            /\ Strip(p[2].text) = Strip(unit.asked[p[1]].text)

\* the cache never holds more than its capacity
WithinCapacity == Len(unit.cache) <= CacheSize

\* every entry a store dropped was the one used longest ago
EvictsOldest == \A i \in 1..Len(unit.evicted) : unit.evicted[i].key = unit.evicted[i].oldest

\* C27: the cache is keyed by (voice id, exact text), never holds more than its
\* capacity, and an insert that exceeds the capacity evicts the entry whose last use
\* (insertion or hit) is the oldest.
C27_KeyedBoundedLru == PlaysOwnAudio /\ WithinCapacity /\ EvictsOldest

------------------------------------------------------------------------------
(* Properties of the queue of ElevenLabsTTS under Conversation.start (SpecTts) *)

\* the numbers of the tasks the worker took, then of those that wait, in that order
TakenThenQueued ==
    [i \in 1..Len(unit.taken) |-> unit.taken[i].id] \o
    [i \in 1..Len(unit.queue) |-> unit.queue[i].id]

\* request numbers grow with the time of the request
Increasing(ids) == \A i, j \in 1..Len(ids) : i < j => ids[i] < ids[j]

HasPlayed(id) == \E p \in unit.played : p[1] = id

\* C28: the worker takes the queued tasks one at a time in the order they were
\* submitted: a task is taken only when every task taken before it is done, and a task
\* with a display callback has been shown by the time its audio plays.
C28_WorkerInOrder ==
    /\ Increasing(TakenThenQueued)
    /\ \A k \in 1..Len(unit.taken) :
          /\ k < Len(unit.taken) => unit.taken[k].id \in unit.finished
          /\ (unit.taken[k].display_callback /\ HasPlayed(unit.taken[k].id))
                => <<unit.taken[k].id, Surface(unit.gui)>> \in unit.shown
    /\ unit.th["worker"].pc # "get" =>
          /\ unit.taken # <<>>
          /\ unit.th["worker"].task = unit.taken[Len(unit.taken)]
          /\ unit.th["worker"].task.id \notin unit.finished

\* the worker took a second task while a third waited, after the first, which had a
\* display callback, was shown, played and done
C28_Witness ==
    /\ Len(unit.taken) = 2
    /\ unit.queue # <<>>
    /\ unit.taken[1].display_callback
    /\ HasPlayed(unit.taken[1].id)
    /\ unit.taken[1].id \in unit.finished
    /\ unit.th["worker"].pc = "check"

\* the loop is past the wait of a line it handed to speak_narrator or speak_character
PastWait == unit.conv.pc = "append" /\ unit.conv.line.spoken

\* C29: with TTS enabled, once the loop has submitted a line to the audio queue it goes
\* on to its next step only when the queue is drained, the line played to its end.
C29_WaitsForDrain == PastWait => Drained

\* the loop goes on to append the opening scene while the task that speaks it still
\* waits in the queue, not shown yet
C29_NotWaited ==
    /\ PastWait
    /\ unit.conv.line.site = "opening"
    /\ Len(unit.queue) = 1
    /\ unit.queue[1].id = unit.conv.line.id
    /\ unit.shown = {}

\* the loop is between two lines and the worker has nothing left to do
Quiet == unit.conv.pc = "present" /\ Drained

\* the AI dialogue lines in the history that are not empty
AiLines ==
    {unit.appended[i] : i \in {j \in 1..Len(unit.appended) :
                                  /\ unit.appended[j].site = "dialogue"
                                  /\ unit.appended[j].ai
                                  /\ unit.appended[j].text # <<>>}}

Delivered(line) == <<line.id, Surface(unit.gui)>> \in unit.shown

\* every task that speaks for a character the voice map does not know has the
\* narrator's voice
UnvoicedAsNarrator ==
    unit.voice = <<>> =>
        /\ \A i \in 1..Len(unit.queue) : unit.queue[i].voice_id = NARRATOR_VOICE_ID
        /\ \A i \in 1..Len(unit.taken) : unit.taken[i].voice_id = NARRATOR_VOICE_ID

\* C30: in every configuration every AI dialogue line in the history that is not empty
\* has been shown on the surface of the configuration once the audio queue is drained,
\* also when its speech was skipped; a character without a voice id is spoken with the
\* narrator's voice or not at all.
C30_DialogueDelivered ==
    /\ Quiet => \A line \in AiLines : Delivered(line)
    /\ UnvoicedAsNarrator

\* the same for the lines that hold more than whitespace and whose display callback
\* did not raise
C30_SpeakableDelivered ==
    /\ Quiet => \A line \in AiLines :
                    (Strip(line.text) # <<>> /\ line.id \notin unit.raised) => Delivered(line)
    /\ UnvoicedAsNarrator

\* window and TTS: an AI line of whitespace is in the history, the queue is drained, and
\* the window never got the line
C30_BlankLineLost ==
    /\ Quiet
    /\ unit.gui /\ unit.tts
    /\ \E line \in AiLines : line.text = <<" ">> /\ ~Delivered(line)

\* window and TTS, no voice id for the speaker: an AI line was spoken with the
\* narrator's voice and shown by the display callback of its task
C30_NarratorVoiceShown ==
    /\ Quiet
    /\ unit.gui /\ unit.tts /\ unit.voice = <<>>
    /\ \E line \in AiLines :
          /\ Delivered(line)
          /\ \E i \in 1..Len(unit.taken) :
                unit.taken[i].id = line.id /\ unit.taken[i].voice_id = NARRATOR_VOICE_ID

-----------------------------------------------------------------------------
(* Properties of ElevenLabsTTS.find_or_create_voice (SpecVoice) *)

VoiceCalls == {unit.calls[i] : i \in 1..Len(unit.calls)}

\* the search was made and came back with no voice / with a voice
SearchedNone(c) ==
    Strip(c.voice_description) # <<>> /\ ~c.search_reply.raised /\ c.search_reply.voices = <<>>

SearchedHit(c) ==
    Strip(c.voice_description) # <<>> /\ ~c.search_reply.raised /\ c.search_reply.voices # <<>>

\* C33: with auto_create a call whose search finds no voice designs and creates one;
\* without auto_create a call creates nothing and, when the search finds no voice,
\* returns what _pick_fallback_voice gives; a voice the search finds is returned in
\* both modes.
C33_FindOrCreate ==
    unit.op = "voice" =>
        \A c \in VoiceCalls :
            /\ (c.auto_create /\ SearchedNone(c)) =>
                   (c.by = "design_and_create_voice" /\ c.posts >= 1)
            /\ ~c.auto_create => c.posts = 0
            /\ (~c.auto_create /\ SearchedNone(c)) =>
                   (c.via = "fallback" \/ c.by = "_pick_fallback_voice")
            /\ SearchedHit(c) => c.ret = JStr(c.search_reply.voices[1].voice_id)

\* a call with auto_create whose search found nothing and which returned a fallback voice
\* of the library without a single POST
C33_FallbackInsteadOfCreate ==
    /\ unit.op = "voice"
    /\ \E c \in VoiceCalls :
          /\ c.auto_create /\ SearchedNone(c)
          /\ c.by = "find_voice_id" /\ c.via = "fallback" /\ c.posts = 0
          /\ \E i \in 1..Len(unit.library) : c.ret = JStr(unit.library[i].voice_id)

\* what the code does: it creates only when find_voice_id returns nothing, which for a
\* search that was made and found no voice means that the library gave no fallback either
C33_CreatesWhenNothingComesBack ==
    unit.op = "voice" =>
        \A c \in VoiceCalls :
            /\ c.by = "design_and_create_voice" => c.auto_create
            /\ (c.by = "design_and_create_voice" /\ SearchedNone(c)) =>
                   (c.via = "fallback" /\ c.ret \in {JNull, JStr(<<"c", ToString(c.library)>>)})
            /\ ~c.auto_create => c.posts = 0
            /\ (SearchedHit(c) /\ c.search_reply.voices[1].voice_id # NARRATOR_VOICE_ID) =>
                   c.ret = JStr(c.search_reply.voices[1].voice_id)

\* the calls in which _pick_fallback_voice returned a voice, in order
Picks ==
    SelectSeq(unit.calls, LAMBDA c : /\ c.via = "fallback" \/ c.by = "_pick_fallback_voice"
                                     /\ c.by # "design_and_create_voice"
                                     /\ Truthy(c.ret))

\* the voices of the loaded library that are not the narrator's and conflict with the
\* gender hint of none of the searches
Eligible ==
    {i \in 1..Len(unit.tts.fallback_voices) :
        /\ unit.tts.fallback_voices[i].voice_id # NARRATOR_VOICE_ID
        /\ \A k \in 1..Len(Picks) :
              filtered(<<unit.tts.fallback_voices[i]>>, Lower(Picks[k].voice_description)) # <<>>}

PicksDistinct == \A i, j \in 1..Len(Picks) : i # j => Picks[i].ret # Picks[j].ret

\* C35: n fallback selections in a row, made of a library with at least n eligible
\* voices that are not the narrator's, return n different voice ids
C35_FallbacksDistinct ==
    (unit.op = "voice" /\ Cardinality(Eligible) >= Len(Picks)) => PicksDistinct

\* two selections for two descriptions got the same voice though two were eligible
C35_SameVoiceTwice ==
    /\ unit.op = "voice"
    /\ Len(Picks) = 2 /\ Cardinality(Eligible) >= 2
    /\ Picks[1].ret = Picks[2].ret
    /\ Picks[1].voice_description # Picks[2].voice_description
    /\ Strip(Picks[1].voice_description) # <<>> /\ Strip(Picks[2].voice_description) # <<>>

\* selections for one and the same description are different voices
C35_OneSearchDistinct ==
    (/\ unit.op = "voice"
     /\ Cardinality(Eligible) >= Len(Picks)
     /\ \A i, j \in 1..Len(Picks) : Picks[i].voice_description = Picks[j].voice_description)
        => PicksDistinct

-----------------------------------------------------------------------------
(* Properties of the worker of ElevenLabsTTS when a task raises (SpecTtsFair) *)

Queued(id) == \E i \in 1..Len(unit.queue) : unit.queue[i].id = id

MarkedDone(id) == \E i \in 1..Len(unit.done) : unit.done[i] = id

\* the tasks marked done are the tasks taken, in the order taken, each once, but for
\* the one the worker is at
DoneOnceInOrder ==
    /\ Len(unit.done) <= Len(unit.taken) /\ Len(unit.taken) <= Len(unit.done) + 1
    /\ \A i \in 1..Len(unit.done) : unit.done[i] = unit.taken[i].id
    /\ \A i, j \in 1..Len(unit.taken) : i < j => unit.taken[i].id < unit.taken[j].id
    /\ Len(unit.taken) = Len(unit.done) + 1 <=> unit.th["worker"].pc # "get"

\* C40: an exception in the display callback or in playing the audio of a task does
\* not stop the worker: every task taken is marked done once, in the order taken, and
\* every task in the queue is taken and marked done in the end.
C40_WorkerSurvives ==
    /\ []DoneOnceInOrder
    /\ \A id \in 1..MaxLines : Queued(id) ~> MarkedDone(id)

\* the callback of one task raised, playing the audio of the next raised, and the task
\* submitted after them was played and marked done
C40_Witness ==
    /\ Len(unit.done) = 3
    /\ unit.done[1] \in unit.raised /\ unit.done[2] \in unit.raised
    /\ unit.taken[1].display_callback /\ unit.done[1] \notin {p[1] : p \in unit.shown}
    /\ unit.taken[2].display_callback /\ unit.done[2] \in {p[1] : p \in unit.shown}
    /\ unit.done[3] \notin unit.raised
    /\ unit.done[3] \in {p[1] : p \in unit.played}

-----------------------------------------------------------------------------
(* Properties of the window's message_queue (SpecBubbles) *)

\* C38: in the message queue the events of one bubble are next to each other: no event
\* of another bubble lies between two events of the same bubble.
C38_BubblesApart ==
    unit.op = "bubbles" =>
        \A i, k \in 1..Len(unit.message_queue) :
            (i < k /\ unit.message_queue[i].id = unit.message_queue[k].id) =>
                \A j \in i..k : unit.message_queue[j].id = unit.message_queue[i].id

\* the start of the player's bubble was put between the start and the text of the
\* opening scene's bubble
C38_PlayerInsideNarration ==
    /\ unit.op = "bubbles"
    /\ Len(unit.message_queue) >= 3
    /\ unit.message_queue[1] = Event("start_bubble", 1)
    /\ unit.message_queue[2].kind = "start_bubble" /\ unit.sites[unit.message_queue[2].id] = "player"
    /\ unit.message_queue[3] = Event("append_text", 1)

-----------------------------------------------------------------------------
(* Properties of Conversation.trim_history_to_token_limit (SpecTrim) *)

RECURSIVE TokenEstimate(_)
\* the sum over the entries of len(content) divided by 4, rounded down
TokenEstimate(h) ==
    IF h = <<>> THEN 0 ELSE (StrLen(Head(h).content) \div 4) + TokenEstimate(Tail(h))

\* C8: trimming removes a prefix only, never the last remaining entry, ends within the
\* budget or with one entry, and leaves a history within the budget as it is
C8_TrimRemovesPrefix ==
    Called("trim_history_to_token_limit") =>
        /\ \E k \in 0..Len(unit.history) :
              unit.out = SubSeq(unit.history, k + 1, Len(unit.history))
        /\ unit.history # <<>> => unit.out # <<>>
        /\ TokenEstimate(unit.out) <= MAX_HISTORY_TOKENS \/ Len(unit.out) = 1
        /\ TokenEstimate(unit.history) <= MAX_HISTORY_TOKENS => unit.out = unit.history

\* a history over the budget that is cut down to its last entry, itself over the budget
C8_Witness ==
    /\ Called("trim_history_to_token_limit")
    /\ Len(unit.history) = 3
    /\ Len(unit.out) = 1
    /\ unit.out[1] = unit.history[3]
    /\ TokenEstimate(unit.out) > MAX_HISTORY_TOKENS

====
